---------------------------- MODULE Spec2Model ----------------------------
(***************************************************************************)
(* A model of Roastery's JDWP client library: the field codec and the      *)
(* command-packet serialiser (jdwp_type, jdwp_packet), the socket wrapper  *)
(* (jdwp_socket) and the connection with its writer and reader threads     *)
(* (jdwp_con).                                                             *)
(*                                                                         *)
(* Bytes are integers 0..255.  A multi-byte C++ integer is kept as the     *)
(* sequence of its bytes in host memory order (little endian, the build    *)
(* the #else branches of the source select), which is what the source's    *)
(* reinterpret_cast loops work on.  A byte string is a sequence of bytes.  *)
(***************************************************************************)
EXTENDS Integers, Sequences, FiniteSets, TLC

(***************************************************************************)
(* Byte helpers                                                            *)
(***************************************************************************)

\* The value a throwing call yields in place of a byte string.
Thrown == <<-1>>

\* Concatenation that propagates an exception thrown by either operand.
Cat(a, b) == IF a = Thrown \/ b = Thrown THEN Thrown ELSE a \o b

RECURSIVE Reverse(_)
Reverse(s) == IF s = <<>> THEN <<>> ELSE Reverse(Tail(s)) \o <<Head(s)>>

\* The first n elements of s (all of s when it is shorter).
Take(s, n) == SubSeq(s, 1, IF n < Len(s) THEN n ELSE Len(s))

\* s without its first n elements.
Drop(s, n) == SubSeq(s, n + 1, Len(s))

\* Host memory image (little endian) of the w-byte integer n, 0 <= n < 2^31.
RECURSIVE LE(_, _)
LE(n, w) == IF w = 0 THEN <<>> ELSE <<n % 256>> \o LE(n \div 256, w - 1)

\* htonl: the four bytes of a 32-bit value in network order.
htonl(n) == Reverse(LE(n, 4))

\* ntohl of four network-order bytes whose value is below 2^31.
ntohl(b) == ((b[1] * 256 + b[2]) * 256 + b[3]) * 256 + b[4]

(***************************************************************************)
(* Field codec: serialisation (jdwp_type.hpp, jdwp_type.cpp)               *)
(***************************************************************************)

\* Field kinds built on JdwpFieldBase, with sizeof(UnderlyingType).
FixedKinds == {"Byte", "Bool", "Char", "Float", "Double", "Int", "Long", "Short"}

value_size(kind) ==
  CASE kind \in {"Byte", "Bool"} -> 1
    [] kind \in {"Char", "Short"} -> 2
    [] kind \in {"Float", "Int"} -> 4
    [] kind \in {"Double", "Long"} -> 8

\* Field kinds built on JdwpVariableSizeFieldBase: all hold a uint64_t.
ObjSizedKinds == {"ObjId", "ThreadId", "ThreadGroupId", "StringId",
                  "ClassLoaderId", "ClassObjectId", "ArrayId",
                  "ReferenceTypeId", "ClassId", "InterfaceId", "ArrayTypeId"}
VarKinds == ObjSizedKinds \cup {"MethodId", "FieldId", "FrameId"}

\* GetSize(con) of each variable-width kind; sizes is what the connection's
\* Get*IdSize() return.
GetSize(kind, sizes) ==
  CASE kind \in ObjSizedKinds -> sizes.obj
    [] kind = "MethodId" -> sizes.method
    [] kind = "FieldId" -> sizes.field
    [] kind = "FrameId" -> sizes.frame

\* JdwpFieldBase::SerializeImpl: the bytes of value, last to first.
FixedSerialize(v) == Reverse(v)

\* JdwpVariableSizeFieldBase::SerializeImpl: throws when the size exceeds
\* sizeof(uint64_t), else appends value_bytes[n-1] down to value_bytes[0].
VarSerialize(v, bytes_to_send) ==
  IF bytes_to_send > 8 THEN Thrown ELSE Reverse(SubSeq(v, 1, bytes_to_send))

\* JdwpString::SerializeImpl: htonl(length) then the data.
StringSerialize(data) == htonl(Len(data)) \o data

\* JdwpLocation::SerializeImpl.
LocationSerialize(loc, sizes) ==
  Cat(Cat(Cat(<<loc.type>>, VarSerialize(loc.class_id, sizes.obj)),
          VarSerialize(loc.method_id, sizes.method)),
      Reverse(loc.index))

\* JdwpTaggedObjectId::SerializeImpl.
TaggedObjectIdSerialize(t, sizes) ==
  Cat(<<t.tag>>, VarSerialize(t.obj_id, sizes.obj))

\* JdwpValue::JdwpValue(JdwpTag tag, JdwpVal val): the tag, and the
\* alternative and content of val.
ValueCtor(tag, val) == [tag |-> tag, alt |-> val.alt, v |-> val.v]

\* JdwpValue::SerializeAsUntagged: Serialize of whichever alternative the
\* variant holds (VoidValue serialises to the empty string).
SerializeAsUntagged(val, sizes) ==
  CASE val.alt = "Void" -> <<>>
    [] val.alt = "ObjId" -> VarSerialize(val.v, sizes.obj)
    [] OTHER -> FixedSerialize(val.v)

\* JdwpValue::SerializeImpl: the tag byte, then the untagged form.
ValueSerialize(val, sizes) == Cat(<<val.tag>>, SerializeAsUntagged(val, sizes))

\* IJdwpField::Serialize, by the dynamic type of the field.
FieldSerialize(kind, v, sizes) ==
  CASE kind \in FixedKinds -> FixedSerialize(v)
    [] kind \in VarKinds -> VarSerialize(v, GetSize(kind, sizes))
    [] kind = "String" -> StringSerialize(v)
    [] kind = "Location" -> LocationSerialize(v, sizes)
    [] kind = "TaggedObjectId" -> TaggedObjectIdSerialize(v, sizes)
    [] kind = "Value" -> ValueSerialize(v, sizes)

(***************************************************************************)
(* Command packets (jdwp_packet.hpp, jdwp_packet.cpp)                      *)
(***************************************************************************)

kHeaderLen == 11

\* JdwpFlags::kNone
kNone == 0

\* IJdwpCommandPacket::ProduceHeader.  The source throws when body_len exceeds
\* UINT32_MAX - 11; every body of this model is far shorter than that.
ProduceHeader(command_set, command, body_len, id) ==
  htonl(body_len + kHeaderLen) \o htonl(id) \o <<kNone>> \o
  <<command_set>> \o <<command>>

\* The command classes of the model.  The first five are plain
\* CommandPacketBase instantiations, the SetValues classes override
\* SerializeImpl, and EventRequest.Set derives from IJdwpCommandPacket itself.
GenericClasses == {"Version", "IDSizes", "Exit", "ClassesBySignature",
                   "DisposeObjects"}
SetValuesClasses == {"ClassType.SetValues", "ObjectReference.SetValues",
                     "ArrayReference.SetValues"}
PacketClasses == GenericClasses \cup SetValuesClasses \cup {"EventRequest.Set"}

\* The command_set template argument (CommandSet enum) of each class.
CommandSetOf(cls) ==
  CASE cls \in GenericClasses -> 1
    [] cls = "ClassType.SetValues" -> 3
    [] cls = "ObjectReference.SetValues" -> 9
    [] cls = "ArrayReference.SetValues" -> 13
    [] cls = "EventRequest.Set" -> 15

\* The command template argument of each class.
CommandOf(cls) ==
  CASE cls = "Version" -> 1
    [] cls = "ClassesBySignature" -> 2
    [] cls = "IDSizes" -> 7
    [] cls = "Exit" -> 10
    [] cls = "DisposeObjects" -> 14
    [] cls = "ClassType.SetValues" -> 2
    [] cls = "ObjectReference.SetValues" -> 3
    [] cls = "ArrayReference.SetValues" -> 3
    [] cls = "EventRequest.Set" -> 1

\* The Fields template argument: a tuple of slots.  A slot is a field kind,
\* or a vector of tuples of field kinds.
One(kind) == [vec |-> FALSE, kinds |-> <<kind>>]
Vec(kinds) == [vec |-> TRUE, kinds |-> kinds]
FieldsOf(cls) ==
  CASE cls \in {"Version", "IDSizes"} -> <<>>
    [] cls = "Exit" -> <<One("Int")>>
    [] cls = "ClassesBySignature" -> <<One("String")>>
    [] cls = "DisposeObjects" -> <<Vec(<<"ObjId", "Int">>)>>
    [] cls = "ClassType.SetValues" ->
         <<One("ClassId"), Vec(<<"FieldId", "Value">>)>>
    [] cls = "ObjectReference.SetValues" ->
         <<One("ObjId"), Vec(<<"FieldId", "Value">>)>>
    [] cls = "ArrayReference.SetValues" ->
         <<One("ArrayId"), One("Int"), Vec(<<"Value">>)>>

\* TupleForEach over one bundle of a vector: each field's Serialize in order.
RECURSIVE BundleSerialize(_, _, _)
BundleSerialize(kinds, bundle, sizes) ==
  IF kinds = <<>> THEN <<>>
  ELSE Cat(FieldSerialize(Head(kinds), Head(bundle), sizes),
           BundleSerialize(Tail(kinds), Tail(bundle), sizes))

RECURSIVE BundlesSerialize(_, _, _)
BundlesSerialize(kinds, v, sizes) ==
  IF v = <<>> THEN <<>>
  ELSE Cat(BundleSerialize(kinds, Head(v), sizes),
           BundlesSerialize(kinds, Tail(v), sizes))

\* CommandPacketBase::RecursiveSerialize: a vector is a JdwpInt holding
\* v.size() followed by its bundles; any other field is its Serialize.
RecursiveSerialize(slot, field, sizes) ==
  IF slot.vec
  THEN Cat(FixedSerialize(LE(Len(field), 4)),
           BundlesSerialize(slot.kinds, field, sizes))
  ELSE FieldSerialize(slot.kinds[1], field, sizes)

RECURSIVE SlotsSerialize(_, _, _)
SlotsSerialize(slots, fields, sizes) ==
  IF slots = <<>> THEN <<>>
  ELSE Cat(RecursiveSerialize(Head(slots), Head(fields), sizes),
           SlotsSerialize(Tail(slots), Tail(fields), sizes))

\* With a body that threw, the header is never produced.
WithHeader(cls, id, body) ==
  IF body = Thrown THEN Thrown
  ELSE ProduceHeader(CommandSetOf(cls), CommandOf(cls), Len(body), id) \o body

\* CommandPacketBase::SerializeImpl (the default).
GenericSerializeImpl(p, sizes) ==
  WithHeader(p.cls, p.id, SlotsSerialize(FieldsOf(p.cls), p.fields, sizes))

\* The loops of the three SetValuesCommand::SerializeImpl overrides: each
\* bundle's fields in order, a JdwpValue through SerializeAsUntagged.
RECURSIVE UntaggedBundle(_, _, _)
UntaggedBundle(kinds, bundle, sizes) ==
  IF kinds = <<>> THEN <<>>
  ELSE Cat(IF Head(kinds) = "Value"
           THEN SerializeAsUntagged(Head(bundle), sizes)
           ELSE FieldSerialize(Head(kinds), Head(bundle), sizes),
           UntaggedBundle(Tail(kinds), Tail(bundle), sizes))

RECURSIVE UntaggedBundles(_, _, _)
UntaggedBundles(kinds, v, sizes) ==
  IF v = <<>> THEN <<>>
  ELSE Cat(UntaggedBundle(kinds, Head(v), sizes),
           UntaggedBundles(kinds, Tail(v), sizes))

\* class_type::, object_reference:: and array_reference::
\* SetValuesCommand::SerializeImpl: the leading fields, then the bundles of
\* the vector; res.str() is returned as it is.
SetValuesSerializeImpl(p, sizes) ==
  LET slots == FieldsOf(p.cls)
      n == Len(slots)
  IN  Cat(SlotsSerialize(SubSeq(slots, 1, n - 1),
                         SubSeq(p.fields, 1, n - 1), sizes),
          UntaggedBundles(slots[n].kinds, p.fields[n], sizes))

\* event_request::SetCommand::Modifier: the field tuple of each alternative
\* of the variant, by variant index 0..11.
ModifierFields(index) ==
  CASE index \in {0, 1} -> <<"Int">>
    [] index = 2 -> <<"ThreadId">>
    [] index = 3 -> <<"ReferenceTypeId">>
    [] index \in {4, 5, 11} -> <<"String">>
    [] index = 6 -> <<"Location">>
    [] index = 7 -> <<"ReferenceTypeId", "Bool", "Bool">>
    [] index = 8 -> <<"ReferenceTypeId", "FieldId">>
    [] index = 9 -> <<"ThreadId", "Int", "Int">>
    [] index = 10 -> <<"ObjId">>

\* The modifier loop with the variant index itself as modKind.
RECURSIVE ModifiersSerializeZeroBased(_, _)
ModifiersSerializeZeroBased(modifiers, sizes) ==
  IF modifiers = <<>> THEN <<>>
  ELSE LET m == Head(modifiers)
       IN  Cat(Cat(FixedSerialize(LE(m.index, 1)),
                   BundleSerialize(ModifierFields(m.index), m.fields, sizes)),
               ModifiersSerializeZeroBased(Tail(modifiers), sizes))

\* The loop over the modifiers of event_request::SetCommand::SerializeImpl.
RECURSIVE ModifiersSerialize(_, _)
ModifiersSerialize(modifiers, sizes) ==
  IF modifiers = <<>> THEN <<>>
  ELSE LET m == Head(modifiers)
       IN  Cat(Cat(FixedSerialize(LE(m.index + 1, 1)),
                   BundleSerialize(ModifierFields(m.index), m.fields, sizes)),
               ModifiersSerialize(Tail(modifiers), sizes))

\* event_request::SetCommand::SerializeImpl.
EventRequestSetSerializeImpl(p, sizes) ==
  LET event_kind == p.fields[1]
      suspend_policy == p.fields[2]
      modifiers == p.fields[3]
      body == Cat(Cat(Cat(FixedSerialize(event_kind),
                          FixedSerialize(suspend_policy)),
                      FixedSerialize(LE(Len(modifiers), 4))),
                  ModifiersSerialize(modifiers, sizes))
  IN  WithHeader(p.cls, p.id, body)

\* IJdwpCommandPacket::Serialize: the virtual SerializeImpl of the class.
Serialize(p, sizes) ==
  CASE p.cls \in GenericClasses -> GenericSerializeImpl(p, sizes)
    [] p.cls \in SetValuesClasses -> SetValuesSerializeImpl(p, sizes)
    [] p.cls = "EventRequest.Set" -> EventRequestSetSerializeImpl(p, sizes)

(***************************************************************************)
(* Inbound packets: classification and the composite-event parser          *)
(***************************************************************************)

\* CommandSet::kEvent and Event::kComposite
kEvent == 64
kComposite == 100
\* JdwpFlags::kReply
kReply == 128

\* HeaderIsEvent: bit 7 of the flags byte clear, command set kEvent.
HeaderIsEvent(h) == h[9] < kReply /\ h[10] = kEvent

\* The event kinds FromComposite's switch has a case for.
SwitchKinds == {90, 1, 2, 40, 41, 42, 43, 44, 45, 46, 4, 6, 7, 8, 9, 20, 21, 99}

\* The Fields tuple of each event class (events::VmStart ... events::VmDeath).
EventFields(kind) ==
  CASE kind \in {90, 6, 7} -> <<"Int", "ThreadId">>
    [] kind \in {1, 2, 40, 41} -> <<"Int", "ThreadId", "Location">>
    [] kind = 42 -> <<"Int", "ThreadId", "Location", "Value">>
    [] kind \in {43, 44} ->
         <<"Int", "ThreadId", "TaggedObjectId", "Location">>
    [] kind = 45 ->
         <<"Int", "ThreadId", "TaggedObjectId", "Location", "Long">>
    [] kind = 46 ->
         <<"Int", "ThreadId", "TaggedObjectId", "Location", "Bool">>
    [] kind = 4 ->
         <<"Int", "ThreadId", "Location", "TaggedObjectId", "Location">>
    [] kind = 8 ->
         <<"Int", "ThreadId", "Byte", "ReferenceTypeId", "String", "Int">>
    [] kind = 9 -> <<"Int", "String">>
    [] kind = 20 ->
         <<"Int", "ThreadId", "Location", "Byte", "ReferenceTypeId",
           "FieldId", "TaggedObjectId">>
    [] kind = 21 ->
         <<"Int", "ThreadId", "Location", "Byte", "ReferenceTypeId",
           "FieldId", "TaggedObjectId", "Value">>
    [] kind = 99 -> <<"Int">>

\* JdwpTag values and TagIsObjType.
ObjTags == {91, 76, 115, 116, 103, 108, 99}

\* The width FromEncodedAsUntagged reports for a tag; -1 when it throws
\* ("Unknown Tag").
UntaggedSize(tag, sizes) ==
  CASE tag = 86 -> 0
    [] tag \in ObjTags -> sizes.obj
    [] tag \in {90, 66} -> 1
    [] tag \in {67, 83} -> 2
    [] tag \in {70, 73} -> 4
    [] tag \in {68, 74} -> 8
    [] OTHER -> -1

\* The number of bytes FromEncoded of a field of this kind reports for enc;
\* -1 when it throws.
FieldFromEncodedSize(kind, enc, sizes) ==
  CASE kind \in FixedKinds -> value_size(kind)
    [] kind \in VarKinds -> GetSize(kind, sizes)
    [] kind = "String" -> 4 + ntohl(Take(enc, 4) \o <<0, 0, 0, 0>>)
    [] kind = "Location" -> 1 + sizes.obj + sizes.method + 8
    [] kind = "TaggedObjectId" -> 1 + sizes.obj
    [] kind = "Value" ->
         LET tag == IF enc = <<>> THEN 0 ELSE enc[1]
         IN  IF UntaggedSize(tag, sizes) < 0 THEN -1
             ELSE 1 + UntaggedSize(tag, sizes)

\* EventBase::FromEncodedImpl: TupleForEach over the fields, each decoding
\* encoded.substr(curr_idx); substr throws when curr_idx is past the end.
\* Yields the bytes consumed, or -1 when something threw.
RECURSIVE EventFromEncodedImpl(_, _, _, _)
EventFromEncodedImpl(kinds, encoded, curr_idx, sizes) ==
  IF kinds = <<>> THEN curr_idx
  ELSE IF curr_idx > Len(encoded) THEN -1
  ELSE LET n == FieldFromEncodedSize(Head(kinds), Drop(encoded, curr_idx), sizes)
       IN  IF n < 0 THEN -1
           ELSE EventFromEncodedImpl(Tail(kinds), encoded, curr_idx + n, sizes)

\* The loop of IJdwpEvent::FromComposite from index idx with cnt records
\* left: read the kind byte, construct the event of that kind (default:
\* throw), decode it, append it.
RECURSIVE CompositeLoop(_, _, _, _, _)
CompositeLoop(encoded, idx, cnt, res, sizes) ==
  IF cnt <= 0 THEN [ok |-> TRUE, events |-> res]
  ELSE IF idx > Len(encoded) THEN [ok |-> FALSE, events |-> <<>>]
  ELSE LET event_kind == IF idx = Len(encoded) THEN 0 ELSE encoded[idx + 1]
       IN  IF event_kind \notin SwitchKinds
           THEN [ok |-> FALSE, events |-> <<>>]
           ELSE LET n == EventFromEncodedImpl(EventFields(event_kind),
                           Drop(encoded, idx + 1), 0, sizes)
                IN  IF n < 0 THEN [ok |-> FALSE, events |-> <<>>]
                    ELSE CompositeLoop(encoded, idx + 1 + n, cnt - 1,
                                       Append(res, event_kind), sizes)

\* IJdwpEvent::FromComposite: [ok, events]; ok is FALSE when it throws.
\* The event count of every packet of this model is below 2^31.
FromComposite(encoded, sizes) ==
  IF ~HeaderIsEvent(encoded) THEN [ok |-> FALSE, events |-> <<>>]
  ELSE LET idx == kHeaderLen + 1
           event_cnt == ntohl(Take(Drop(encoded, idx), 4) \o <<0, 0, 0, 0>>)
       IN  IF idx > Len(encoded) THEN [ok |-> FALSE, events |-> <<>>]
           ELSE CompositeLoop(encoded, idx + 4, event_cnt, <<>>, sizes)

\* A handler class: the event kinds whose Handle(E&) it overrides, and
\* whether it overrides the generic Handle(IJdwpEvent&).
HandlerClasses ==
  { [kinds |-> {}, generic |-> TRUE],      \* like roast.cpp's PrintHandler
    [kinds |-> {99}, generic |-> FALSE] }

\* A dispatch that runs an override of the handler whatever kind it is for.
DispatchImplAnyOverride(kind, handler) ==
  IF handler.kinds # {}
  THEN <<"Handle", CHOOSE k \in handler.kinds : TRUE>>
  ELSE IF handler.generic THEN <<"Handle", 0>>
  ELSE <<"ignore", 0>>

\* EventBase::DispatchImpl with GenericHandler's defaults: the function body
\* that runs for an event of this kind.
DispatchImpl(kind, handler) ==
  IF kind \in handler.kinds THEN <<"Handle", kind>>
  ELSE IF handler.generic THEN <<"Handle", 0>>
  ELSE <<"ignore", 0>>

(***************************************************************************)
(* Field codec: decoding (jdwp_type.hpp, jdwp_type.cpp)                    *)
(*                                                                         *)
(* A decoder yields [ok, v, n]: the value the field object holds afterwards *)
(* and the byte count FromEncoded returns; ok is FALSE when it throws.      *)
(* None of the decoders checks the length of its input.  A std::string     *)
(* read at index size() yields 0; a read further out is undefined, and the *)
(* byte it finds is the parameter junk.  The parameter prev is what the    *)
(* field object held before the call.                                      *)
(***************************************************************************)

\* encoded[i], i counted from 0.
At(enc, i, junk) ==
  IF i < Len(enc) THEN enc[i + 1] ELSE IF i = Len(enc) THEN 0 ELSE junk

\* The len bytes found at enc.data() + from.
Raw(enc, from, len, junk) == [k \in 1..len |-> At(enc, from + k - 1, junk)]

\* The std::string made from a const char*: the bytes before the first 0.
RECURSIVE CStr(_)
CStr(bytes) ==
  IF bytes = <<>> \/ Head(bytes) = 0 THEN <<>>
  ELSE <<Head(bytes)>> \o CStr(Tail(bytes))

\* The value of a value-initialised variable-size field.
ZeroId == [k \in 1..8 |-> 0]

\* JdwpFieldBase::FromEncodedImpl: value_bytes[i] = encoded[value_size-1-i].
FixedFromEncoded(kind, enc, junk) ==
  [ok |-> TRUE,
   v |-> [k \in 1..value_size(kind) |-> At(enc, value_size(kind) - k, junk)],
   n |-> value_size(kind)]

\* JdwpVariableSizeFieldBase::FromEncodedImpl for a size of at most 8: the
\* first bytes_to_read bytes, reversed, overwrite the low bytes of value;
\* the other bytes of value are not written.
VarFromEncoded(prev, enc, bytes_to_read, junk) ==
  [ok |-> TRUE,
   v |-> [k \in 1..8 |-> IF k <= bytes_to_read
                          THEN At(enc, bytes_to_read - k, junk)
                          ELSE prev[k]],
   n |-> bytes_to_read]

\* JdwpTaggedObjectId::FromEncodedImpl: the object ID is decoded from
\* &data_arr[1], a const char* converted to a std::string.
TaggedObjectIdFromEncoded(prev, data, sizes, junk) ==
  LET o == VarFromEncoded(prev.obj_id, CStr(Drop(data, 1)), sizes.obj, junk)
  IN  [ok |-> TRUE,
       v |-> [tag |-> At(data, 0, junk), obj_id |-> o.v],
       n |-> 1 + o.n]

\* JdwpLocation::FromEncodedImpl.
LocationFromEncoded(prev, enc, sizes, junk) ==
  LET c == VarFromEncoded(prev.class_id, Raw(enc, 1, sizes.obj, junk),
                          sizes.obj, junk)
      m == VarFromEncoded(prev.method_id,
                          Raw(enc, 1 + sizes.obj, sizes.method, junk),
                          sizes.method, junk)
  IN  [ok |-> TRUE,
       v |-> [type |-> At(enc, 0, junk), class_id |-> c.v,
              method_id |-> m.v,
              index |-> Reverse(Raw(enc, 1 + sizes.obj + sizes.method, 8,
                                    junk))],
       n |-> 1 + c.n + m.n + 8]

\* JdwpString::FromEncodedImpl.  The declared lengths of this model are
\* below 2^31.
StringFromEncoded(data, junk) ==
  LET strlen == ntohl(Raw(data, 0, 4, junk))
  IN  [ok |-> TRUE, v |-> Raw(data, 4, strlen, junk), n |-> 4 + strlen]

\* The alternative of JdwpVal that FromEncodedAsUntagged constructs for a
\* tag that is not an object type and not void.
AltOfTag(t) ==
  CASE t = 90 -> "Bool" [] t = 66 -> "Byte" [] t = 67 -> "Char"
    [] t = 70 -> "Float" [] t = 68 -> "Double" [] t = 73 -> "Int"
    [] t = 74 -> "Long" [] t = 83 -> "Short" [] OTHER -> "none"

\* JdwpValue::FromEncodedAsUntagged.
FromEncodedAsUntagged(t, enc, sizes, junk) ==
  IF t = 86 THEN [ok |-> TRUE, v |-> [tag |-> t, alt |-> "Void", v |-> <<>>],
                  n |-> 0]
  ELSE IF t \in ObjTags
  THEN [ok |-> TRUE,
        v |-> [tag |-> t, alt |-> "ObjId",
               v |-> VarFromEncoded(ZeroId, enc, sizes.obj, junk).v],
        n |-> sizes.obj]
  ELSE IF AltOfTag(t) = "none" THEN [ok |-> FALSE, v |-> <<>>, n |-> 0]
  ELSE [ok |-> TRUE,
        v |-> [tag |-> t, alt |-> AltOfTag(t),
               v |-> FixedFromEncoded(AltOfTag(t), enc, junk).v],
        n |-> value_size(AltOfTag(t))]

\* JdwpValue::FromEncodedImpl: encoded.substr(1) throws on an empty string.
ValueFromEncoded(enc, sizes, junk) ==
  IF enc = <<>> THEN [ok |-> FALSE, v |-> <<>>, n |-> 0]
  ELSE LET u == FromEncodedAsUntagged(enc[1], Drop(enc, 1), sizes, junk)
       IN  [ok |-> u.ok, v |-> u.v, n |-> 1 + u.n]

\* An empty unique_ptr<JdwpValue>.
NullValue == [tag |-> 0, alt |-> "null", v |-> <<>>]

\* JdwpArrayRegion(tag, values): the vector is created with values.size()
\* empty pointers and the copies are pushed behind them.
ArrayRegionCtor(t, values) ==
  [tag |-> t,
   values |-> [k \in 1..Len(values) |-> NullValue] \o values]

\* JdwpArrayRegion::SerializeImpl.  Serialising through an empty pointer
\* does not return; this is Thrown here.
RECURSIVE ElementsSerialize(_, _, _)
ElementsSerialize(t, values, sizes) ==
  IF values = <<>> THEN <<>>
  ELSE IF Head(values) = NullValue THEN Thrown
  ELSE Cat(IF t \in ObjTags THEN ValueSerialize(Head(values), sizes)
           ELSE SerializeAsUntagged(Head(values), sizes),
           ElementsSerialize(t, Tail(values), sizes))

ArrayRegionSerialize(r, sizes) ==
  Cat(<<r.tag>> \o htonl(Len(r.values)),
      ElementsSerialize(r.tag, r.values, sizes))

\* The loops of JdwpArrayRegion::FromEncodedImpl: the elements decoded from
\* offset i on; ok is FALSE when a substr or a decode throws.
RECURSIVE ElementsFromEncoded(_, _, _, _, _, _, _)
ElementsFromEncoded(t, encoded, i, left, vs, sizes, junk) ==
  IF left = 0 THEN [ok |-> TRUE, v |-> <<>>]
  ELSE IF i > Len(encoded) THEN [ok |-> FALSE, v |-> <<>>]
  ELSE LET d == IF t \in ObjTags
                THEN ValueFromEncoded(Take(Drop(encoded, i), i + vs),
                                      sizes, junk)
                ELSE FromEncodedAsUntagged(t, Take(Drop(encoded, i), vs),
                                           sizes, junk)
           rest == ElementsFromEncoded(t, encoded, i + vs, left - 1, vs,
                                       sizes, junk)
       IN  IF ~d.ok \/ ~rest.ok THEN [ok |-> FALSE, v |-> <<>>]
           ELSE [ok |-> TRUE, v |-> <<d.v>> \o rest.v]

\* JdwpArrayRegion::FromEncodedImpl.
ArrayRegionFromEncoded(encoded, sizes, junk) ==
  LET t == At(encoded, 0, junk)
      value_count == ntohl(Raw(encoded, 1, 4, junk))
      \* GetSizeByTag: the widths of FromEncodedAsUntagged, and it throws
      \* for the same tags
      base == UntaggedSize(t, sizes)
      vs == IF t \in ObjTags THEN base + 1 ELSE base
      els == ElementsFromEncoded(t, encoded, 5, IF vs = 0 THEN 0
                                                ELSE value_count,
                                 vs, sizes, junk)
  IN  IF base < 0 \/ ~els.ok THEN [ok |-> FALSE, v |-> <<>>, n |-> 0]
      ELSE [ok |-> TRUE, v |-> [tag |-> t, values |-> els.v],
            n |-> 1 + 4 + value_count * vs]

\* IJdwpField::Serialize including the array region.
CodecSerialize(kind, v, sizes) ==
  IF kind = "ArrayRegion" THEN ArrayRegionSerialize(v, sizes)
  ELSE FieldSerialize(kind, v, sizes)

\* IJdwpField::FromEncoded, by the dynamic type of the field; prev is the
\* content of the field object before the call.
FieldFromEncoded(kind, prev, enc, sizes, junk) ==
  CASE kind \in FixedKinds -> FixedFromEncoded(kind, enc, junk)
    [] kind \in VarKinds ->
         VarFromEncoded(prev, enc, GetSize(kind, sizes), junk)
    [] kind = "String" -> StringFromEncoded(enc, junk)
    [] kind = "Location" -> LocationFromEncoded(prev, enc, sizes, junk)
    [] kind = "TaggedObjectId" ->
         TaggedObjectIdFromEncoded(prev, enc, sizes, junk)
    [] kind = "Value" -> ValueFromEncoded(enc, sizes, junk)
    [] kind = "ArrayRegion" -> ArrayRegionFromEncoded(enc, sizes, junk)

(***************************************************************************)
(* State of one process holding one JdwpCon                                *)
(***************************************************************************)

\* Bounds of the model.
MaxPackets == 2      \* command packets constructed in a run
MaxHandlers == 1     \* RegisterEventHandler calls in a run
MaxInbound == 1      \* packets the peer sends after its handshake reply
MaxFaults == 1       \* partial transfers and transient errors the OS injects
MaxChunk == 2        \* largest short count an injected partial transfer has
PeerChunk == 5       \* size of the first part of a message the peer splits

\* BUFSIZ of <cstdio>, the size of Read's buffer.
BUFSIZ == 8192

\* The threads that call into the connection, beside its owner.
Callers == {"c1", "c2"}
NoThread == "none"

\* What JdwpCon::Impl's Get*IdSizeImpl return.
ConSizes == [obj |-> 0, method |-> 0, field |-> 0, frame |-> 0]

\* kJdwpHandshake, "JDWP-Handshake".
kJdwpHandshake == <<74, 68, 87, 80, 45, 72, 97, 110, 100, 115, 104, 97, 107, 101>>

VARIABLES
  next_id,                \* impl::next_id
  next_id_lck,            \* holder of impl::next_id_lck
  issued,                 \* history: the values GetNextId returned, in order
  cpc,                    \* per caller: the call it is inside
  cloc,                   \* per caller: the local of that call
  held,                   \* per caller: packets constructed and not yet sent
  outgoing_messages,      \* Impl::outgoing_messages
  outgoing_messages_lck,  \* holder of Impl::outgoing_messages_lck
  event_handlers,         \* Impl::event_handlers
  event_handlers_lck,     \* holder of Impl::event_handlers_lck
  incoming_messages,      \* Impl::incoming_messages
  incoming_messages_lck,  \* holder of Impl::incoming_messages_lck
  should_cancel,          \* Impl::should_cancel
  constructed,            \* the members declared after the threads exist
  mpc,                    \* the owner thread: constructor, use, destructor
  sock_fd,                \* JdwpSocket::Impl::sock_fd
  fd_open,                \* whether the descriptor is open in the kernel
  wire,                   \* every byte the kernel accepted from send()
  inbuf,                  \* bytes received from the peer and not yet read
  peer_pending,           \* rest of the message the peer is sending
  peer_sent,              \* messages the peer has started
  peer_closed,            \* the peer has closed its end
  faults,                 \* injected OS results so far
  wwho, wdata, bytes_written,    \* the Write call in progress
  rwho, rlen, bytes_read, out,   \* the Read call in progress
  wpc, next_packet,       \* the writer thread
  rpc, header,            \* the reader thread
  events, ei, hi, hend, stale,   \* ... its dispatch loops
  terminated,             \* std::terminate was called, or the process crashed
  sentLog,                \* history: packets in the order SendMessage pushed
  invocations,            \* history: handler calls for the current composite
  parse_handlers,         \* history: the handler list when it was parsed
  replies_read,           \* history: IDs of the reply packets read
  ser_in, ser_out,        \* argument and result of a Serialize call
  sock_log                \* history: how each direct call on a JdwpSocket ended

idVars == <<next_id, next_id_lck, issued>>
callerVars == <<cpc, cloc, held>>
queueVars == <<outgoing_messages, outgoing_messages_lck, sentLog>>
handlerVars == <<event_handlers, event_handlers_lck>>
replyVars == <<incoming_messages, incoming_messages_lck, replies_read>>
ownerVars == <<should_cancel, constructed, mpc>>
sockVars == <<sock_fd, fd_open, wire, inbuf>>
peerVars == <<peer_pending, peer_sent, peer_closed>>
writeVars == <<wwho, wdata, bytes_written>>
readVars == <<rwho, rlen, bytes_read, out>>
writerVars == <<wpc, next_packet>>
readerVars == <<rpc, header, events, ei, hi, hend, stale, invocations,
                parse_handlers>>
serVars == <<ser_in, ser_out, sock_log>>
vars == <<idVars, callerVars, queueVars, handlerVars, replyVars, ownerVars,
          sockVars, peerVars, writeVars, readVars, writerVars, readerVars,
          serVars, faults, terminated>>

NoPacket == [cls |-> "none", id |-> 0, fields |-> <<>>]

\* The state before JdwpCon's constructor is entered.
ConInit ==
  /\ next_id = 0 /\ next_id_lck = NoThread /\ issued = <<>>
  /\ cpc = [c \in Callers |-> "idle"]
  /\ cloc = [c \in Callers |-> 0]
  /\ held = [c \in Callers |-> {}]
  /\ outgoing_messages = <<>> /\ outgoing_messages_lck = NoThread
  /\ sentLog = <<>>
  /\ event_handlers = <<>> /\ event_handlers_lck = NoThread
  /\ incoming_messages = <<>> /\ incoming_messages_lck = NoThread
  /\ replies_read = {}
  /\ should_cancel = FALSE /\ constructed = FALSE /\ mpc = "new"
  /\ sock_fd = -1 /\ fd_open = FALSE /\ wire = <<>> /\ inbuf = <<>>
  /\ peer_pending = <<>> /\ peer_sent = 0 /\ peer_closed = FALSE
  /\ faults = 0
  /\ wwho = NoThread /\ wdata = <<>> /\ bytes_written = 0
  /\ rwho = NoThread /\ rlen = 0 /\ bytes_read = 0 /\ out = <<>>
  /\ wpc = "off" /\ next_packet = NoPacket
  /\ rpc = "off" /\ header = <<>>
  /\ events = <<>> /\ ei = 0 /\ hi = 0 /\ hend = 0 /\ stale = FALSE
  /\ invocations = <<>> /\ parse_handlers = <<>>
  /\ terminated = FALSE
  /\ sock_log = <<>>

Init == ConInit /\ ser_in = <<>> /\ ser_out = <<>>

(***************************************************************************)
(* The peer (the JVM) and the kernel's socket                              *)
(***************************************************************************)

Min(a, b) == IF a < b THEN a ELSE b

\* A reply packet: length 11, the ID, the reply flag, error code 0.
ReplyPacket(id) == htonl(kHeaderLen) \o htonl(id) \o <<kReply, 0, 0>>

\* One event record of a composite: the kind byte and a request ID.
RECURSIVE EventRecords(_)
EventRecords(kinds) ==
  IF kinds = <<>> THEN <<>>
  ELSE <<Head(kinds), 0, 0, 0, 1>> \o EventRecords(Tail(kinds))

\* A Composite event command: suspend policy, event count, the records.
CompositePacket(kinds) ==
  LET body == <<0>> \o htonl(Len(kinds)) \o EventRecords(kinds)
  IN  htonl(kHeaderLen + Len(body)) \o htonl(0) \o <<kNone, kEvent, kComposite>>
      \o body

\* What the peer may answer to the handshake, and what it may send later.
HandshakeReplies == {kJdwpHandshake, [kJdwpHandshake EXCEPT ![14] = 0]}
\* A header that declares a total length below kHeaderLen.
ShortPacket == htonl(5) \o htonl(0) \o <<kReply, 0, 0>>
InboundCatalog == {ReplyPacket(0), CompositePacket(<<99, 99>>),
                   CompositePacket(<<5>>), ShortPacket}

\* The peer starts sending message m and n of its bytes arrive; a message
\* that arrives in two parts is one of the run's irregular transfers.
PeerSend(m, n) ==
  /\ ~terminated /\ fd_open /\ ~peer_closed
  /\ peer_pending = <<>> /\ peer_sent <= MaxInbound
  /\ m \in (IF peer_sent = 0 THEN HandshakeReplies ELSE InboundCatalog)
  /\ n \in {Len(m)} \cup {k \in {PeerChunk} : k < Len(m) /\ faults < MaxFaults}
  /\ inbuf' = inbuf \o Take(m, n)
  /\ peer_pending' = Drop(m, n)
  /\ peer_sent' = peer_sent + 1
  /\ faults' = IF n < Len(m) THEN faults + 1 ELSE faults
  /\ UNCHANGED <<idVars, callerVars, queueVars, handlerVars, replyVars,
                 ownerVars, sock_fd, fd_open, wire, peer_closed, writeVars,
                 readVars, writerVars, readerVars, serVars, terminated>>

\* The rest of the message the peer is sending arrives.
PeerDeliver ==
  /\ ~terminated /\ fd_open /\ ~peer_closed /\ peer_pending # <<>>
  /\ inbuf' = inbuf \o peer_pending
  /\ peer_pending' = <<>>
  /\ UNCHANGED <<idVars, callerVars, queueVars, handlerVars, replyVars,
                 ownerVars, sock_fd, fd_open, wire, peer_sent, peer_closed,
                 writeVars, readVars, writerVars, readerVars, serVars, faults,
                 terminated>>

\* The peer closes its end of the connection.
PeerClose ==
  /\ ~terminated /\ fd_open /\ ~peer_closed
  /\ peer_closed' = TRUE
  /\ peer_pending' = <<>>
  /\ UNCHANGED <<idVars, callerVars, queueVars, handlerVars, replyVars,
                 ownerVars, sockVars, peer_sent, writeVars, readVars,
                 writerVars, readerVars, serVars, faults, terminated>>

(***************************************************************************)
(* JdwpSocket::Impl::Write and Read (jdwp_socket.cpp)                      *)
(*                                                                         *)
(* A size_t that wrapped below zero is kept as its negative reading: -1 is *)
(* SIZE_MAX.  A requested length that wrapped below zero in 32 bits is     *)
(* kept the same way: -3 is 2^32 - 3.                                      *)
(***************************************************************************)

\* What one send() on the rest of wdata may return.
SendOutcomes ==
  LET rem == Len(wdata) - bytes_written
  IN  {[k |-> "n", n |-> rem]}
      \cup {[k |-> "n", n |-> m] :
              m \in {x \in 1..MaxChunk : x < rem /\ faults < MaxFaults}}
      \cup (IF faults < MaxFaults THEN {[k |-> "EINTR", n |-> -1]} ELSE {})
      \cup (IF peer_closed
            THEN {[k |-> "EPIPE", n |-> -1], [k |-> "EIO", n |-> -1]}
            ELSE {})

\* Write's "bytes_written += written_this_call" after a send() that did not
\* make Write throw.
WriteAdvance(written_this_call) == bytes_written + written_this_call

\* Write's loop condition, bytes_written < data.length(), on size_t.
WriteLoops(bw) == bw >= 0 /\ bw < Len(wdata)

\* One iteration of Write's loop with send() returning o: the kernel takes
\* the bytes, EPIPE runs Close(), the counter advances.
SendEffect(o) ==
  /\ faults' = IF o.k = "EINTR" \/ (o.k = "n" /\ o.n < Len(wdata) - bytes_written)
               THEN faults + 1 ELSE faults
  /\ wire' = IF o.k = "n"
             THEN wire \o SubSeq(wdata, bytes_written + 1, bytes_written + o.n)
             ELSE wire
  /\ sock_fd' = IF o.k = "EPIPE" THEN -1 ELSE sock_fd
  /\ fd_open' = IF o.k = "EPIPE" THEN FALSE ELSE fd_open
  /\ bytes_written' = IF o.k \in {"EPIPE", "EIO"} THEN bytes_written
                      ELSE WriteAdvance(o.n)
  /\ UNCHANGED inbuf

SendThrows(o) == o.k \in {"EPIPE", "EIO"}
SendReturns(o) == ~SendThrows(o) /\ ~WriteLoops(bytes_written')

\* What one read() may return while Read wants more bytes.
ReadOutcomes ==
  LET want == IF rlen < 0 THEN BUFSIZ ELSE Min(BUFSIZ, rlen - bytes_read)
      full == Min(Len(inbuf), want)
  IN  (IF full > 0 THEN {[k |-> "n", n |-> full]} ELSE {})
      \cup {[k |-> "n", n |-> m] :
              m \in {x \in 1..MaxChunk : x < full /\ faults < MaxFaults}}
      \cup (IF inbuf = <<>> /\ peer_closed
            THEN {[k |-> "EOF", n |-> 0], [k |-> "EIO", n |-> -1]}
            ELSE {})
      \cup (IF inbuf = <<>> /\ ~peer_closed /\ faults < MaxFaults
            THEN {[k |-> "EINTR", n |-> -1]}
            ELSE {})

\* Read's loop condition, bytes_read < len.
ReadLoops(br, len) == len < 0 \/ br < len

\* One iteration of Read's loop with read() returning o.  A zero return runs
\* Close() and throws; a negative return with EINTR or EAGAIN reaches
\* out.append(buf, -1), which throws std::length_error.
ReadEffect(o) ==
  /\ faults' = IF o.k = "EINTR" \/
                  (o.k = "n" /\ o.n < Min(Len(inbuf),
                       IF rlen < 0 THEN BUFSIZ ELSE Min(BUFSIZ, rlen - bytes_read)))
               THEN faults + 1 ELSE faults
  /\ inbuf' = IF o.k = "n" THEN Drop(inbuf, o.n) ELSE inbuf
  /\ sock_fd' = IF o.k = "EOF" THEN -1 ELSE sock_fd
  /\ fd_open' = IF o.k = "EOF" THEN FALSE ELSE fd_open
  /\ UNCHANGED wire

ReadThrows(o) == o.k # "n"
ReadReturns(o) == o.k = "n" /\ ~ReadLoops(bytes_read + o.n, rlen)

\* The bytes of data tagged with the packet they belong to (-1: the
\* handshake) and their offset in it.
RECURSIVE Tagged(_, _, _)
Tagged(data, src, off) ==
  IF data = <<>> THEN <<>>
  ELSE <<[src |-> src, off |-> off, b |-> Head(data)]>>
       \o Tagged(Tail(data), src, off + 1)

(***************************************************************************)
(* The thread that constructs and destroys the connection                  *)
(***************************************************************************)

\* JdwpSocket::Impl's constructor up to the start of its first send():
\* Connect() either fails, which ends the construction, or yields the
\* descriptor, and Write(kJdwpHandshake) takes write_lock.
SocketConnect ==
  /\ ~terminated /\ mpc = "new"
  /\ \E connected \in BOOLEAN :
       IF connected
       THEN /\ sock_fd' = 3 /\ fd_open' = TRUE
            /\ wwho' = "owner" /\ wdata' = Tagged(kJdwpHandshake, -1, 1)
            /\ bytes_written' = 0
            /\ mpc' = "hs_write"
       ELSE /\ mpc' = "failed"
            /\ UNCHANGED <<sock_fd, fd_open, writeVars>>
  /\ UNCHANGED <<idVars, callerVars, queueVars, handlerVars, replyVars,
                 should_cancel, constructed, wire, inbuf, peerVars, readVars,
                 writerVars, readerVars, serVars, faults, terminated>>

\* One send() of the handshake's Write.  When Write returns, Read(14) takes
\* read_lock; when it throws, the construction fails.
HandshakeWrite ==
  /\ ~terminated /\ mpc = "hs_write"
  /\ \E o \in SendOutcomes :
       /\ SendEffect(o)
       /\ IF SendThrows(o)
          THEN /\ mpc' = "failed" /\ wwho' = NoThread
               /\ UNCHANGED <<wdata, readVars>>
          ELSE IF SendReturns(o)
          THEN /\ mpc' = "hs_read" /\ wwho' = NoThread
               /\ rwho' = "owner" /\ rlen' = Len(kJdwpHandshake)
               /\ bytes_read' = 0 /\ out' = <<>>
               /\ UNCHANGED wdata
          ELSE UNCHANGED <<mpc, wwho, wdata, readVars>>
  /\ UNCHANGED <<idVars, callerVars, queueVars, handlerVars, replyVars,
                 should_cancel, constructed, peerVars, writerVars, readerVars,
                 serVars, terminated>>

\* One read() of the handshake's Read.
HandshakeRead ==
  /\ ~terminated /\ mpc = "hs_read"
  /\ \E o \in ReadOutcomes :
       /\ ReadEffect(o)
       /\ IF ReadThrows(o)
          THEN /\ mpc' = "failed" /\ rwho' = NoThread
               /\ UNCHANGED <<rlen, bytes_read, out>>
          ELSE /\ out' = out \o Take(inbuf, o.n)
               /\ bytes_read' = bytes_read + o.n
               /\ mpc' = IF ReadReturns(o) THEN "hs_check" ELSE mpc
               /\ rwho' = IF ReadReturns(o) THEN NoThread ELSE rwho
               /\ UNCHANGED rlen
  /\ UNCHANGED <<idVars, callerVars, queueVars, handlerVars, replyVars,
                 should_cancel, constructed, peerVars, writeVars, writerVars,
                 readerVars, serVars, terminated>>

\* The comparison of the handshake reply: a mismatch closes the descriptor
\* and throws; a match ends JdwpSocket's construction, and JdwpCon::Impl's
\* initialiser list goes on to should_cancel(false).
HandshakeCheck ==
  /\ ~terminated /\ mpc = "hs_check"
  /\ LET reply == out
     IN  IF reply # kJdwpHandshake
         THEN /\ fd_open' = FALSE /\ mpc' = "failed"
              /\ UNCHANGED should_cancel
         ELSE /\ mpc' = "start_w" /\ should_cancel' = FALSE
              /\ UNCHANGED fd_open
  /\ UNCHANGED <<idVars, callerVars, queueVars, handlerVars, replyVars,
                 constructed, sock_fd, wire, inbuf, peerVars, writeVars,
                 readVars, writerVars, readerVars, serVars, faults,
                 terminated>>

\* write_thread(&Impl::OutgoingMessageQueueHandler, this)
StartWriteThread ==
  /\ ~terminated /\ mpc = "start_w"
  /\ wpc' = "loop" /\ mpc' = "start_r"
  /\ UNCHANGED <<idVars, callerVars, queueVars, handlerVars, replyVars,
                 should_cancel, constructed, sockVars, peerVars, writeVars,
                 readVars, next_packet, readerVars, serVars, faults,
                 terminated>>

\* read_thread(&Impl::IncomingMessageQueueHandler, this)
StartReadThread ==
  /\ ~terminated /\ mpc = "start_r"
  /\ rpc' = "loop" /\ mpc' = "init"
  /\ UNCHANGED <<idVars, callerVars, queueVars, handlerVars, replyVars,
                 should_cancel, constructed, sockVars, peerVars, writeVars,
                 readVars, writerVars, header, events, ei, hi, hend, stale,
                 invocations, parse_handlers, serVars, faults, terminated>>

\* The members declared after the threads are default-constructed:
\* outgoing_messages, incoming_messages, event_handlers and their mutexes.
ConstructRest ==
  /\ ~terminated /\ mpc = "init"
  /\ constructed' = TRUE /\ mpc' = "active"
  /\ UNCHANGED <<idVars, callerVars, queueVars, handlerVars, replyVars,
                 should_cancel, sockVars, peerVars, writeVars, readVars,
                 writerVars, readerVars, serVars, faults, terminated>>

\* ~Impl() sets should_cancel.  No call on the connection is in progress.
Destroy ==
  /\ ~terminated /\ mpc = "active"
  /\ \A c \in Callers : cpc[c] \in {"idle", "gni"}
  /\ should_cancel' = TRUE /\ mpc' = "join_w"
  /\ UNCHANGED <<idVars, callerVars, queueVars, handlerVars, replyVars,
                 constructed, sockVars, peerVars, writeVars, readVars,
                 writerVars, readerVars, serVars, faults, terminated>>

\* write_thread.join() returns once the writer's loop has ended.
JoinWriteThread ==
  /\ ~terminated /\ mpc = "join_w" /\ wpc = "done"
  /\ mpc' = "join_r"
  /\ UNCHANGED <<idVars, callerVars, queueVars, handlerVars, replyVars,
                 should_cancel, constructed, sockVars, peerVars, writeVars,
                 readVars, writerVars, readerVars, serVars, faults,
                 terminated>>

\* read_thread.join() returns once the reader's loop has ended; the members
\* are destroyed and ~JdwpSocket::Impl closes the descriptor.
JoinReadThread ==
  /\ ~terminated /\ mpc = "join_r" /\ rpc = "done"
  /\ mpc' = "destroyed" /\ fd_open' = FALSE
  /\ UNCHANGED <<idVars, callerVars, queueVars, handlerVars, replyVars,
                 should_cancel, constructed, sock_fd, wire, inbuf, peerVars,
                 writeVars, readVars, writerVars, readerVars, serVars, faults,
                 terminated>>

(***************************************************************************)
(* Impl::OutgoingMessageQueueHandler, the writer thread                    *)
(***************************************************************************)

\* What the unlocked outgoing_messages.empty() may yield: the queue may not
\* be constructed yet, or a caller may be inside push().
EmptyOutcomes ==
  IF ~constructed THEN {"empty", "crash"}
  ELSE IF outgoing_messages_lck \in Callers THEN {"empty", "nonempty"}
  ELSE IF outgoing_messages = <<>> THEN {"empty"} ELSE {"nonempty"}

\* while (!should_cancel) { if (!outgoing_messages.empty()) ... else yield }
WriterLoop ==
  /\ ~terminated /\ wpc = "loop"
  /\ IF should_cancel
     THEN wpc' = "done" /\ UNCHANGED terminated
     ELSE \E e \in EmptyOutcomes :
            /\ wpc' = IF e = "nonempty" THEN "lock" ELSE wpc
            /\ terminated' = (e = "crash")
  /\ UNCHANGED <<idVars, callerVars, queueVars, handlerVars, replyVars,
                 ownerVars, sockVars, peerVars, writeVars, readVars,
                 next_packet, readerVars, serVars, faults>>

\* The element the writer takes out of the queue.
WriterTakes(q) == Head(q)
\* The queue after the writer's pop().
WriterLeaves(q) == Tail(q)

\* The guarded block and the call that follows it, up to Write's first
\* send(): lock_guard lk(outgoing_messages_lck); next_packet =
\* move(front()); pop(); unlock; socket->Write(next_packet->Serialize(*this)).
\* An exception leaving the thread function ends the process.
WriterPop ==
  /\ ~terminated /\ wpc = "lock"
  /\ outgoing_messages_lck = NoThread /\ wwho = NoThread
  /\ outgoing_messages' = WriterLeaves(outgoing_messages)
  /\ LET packet == WriterTakes(outgoing_messages)
         data == Serialize(packet, ConSizes)
     IN  IF data = Thrown \/ sock_fd < 0
         THEN /\ terminated' = TRUE /\ next_packet' = packet
              /\ UNCHANGED <<writeVars, wpc>>
         ELSE IF data = <<>>
         THEN /\ wpc' = "loop" /\ next_packet' = NoPacket
              /\ UNCHANGED <<writeVars, terminated>>
         ELSE /\ wwho' = "writer" /\ wdata' = Tagged(data, packet.id, 1)
              /\ bytes_written' = 0 /\ wpc' = "send"
              /\ next_packet' = packet
              /\ UNCHANGED terminated
  /\ UNCHANGED <<idVars, callerVars, outgoing_messages_lck, sentLog,
                 handlerVars, replyVars, ownerVars, sockVars, peerVars,
                 readVars, readerVars, serVars, faults>>

\* One send() of the writer's Write.
WriterSend ==
  /\ ~terminated /\ wpc = "send"
  /\ \E o \in SendOutcomes :
       /\ SendEffect(o)
       /\ IF SendThrows(o)
          THEN terminated' = TRUE /\ UNCHANGED <<wwho, wdata, wpc, next_packet>>
          ELSE IF SendReturns(o)
          THEN /\ wwho' = NoThread /\ wpc' = "loop" /\ next_packet' = NoPacket
               /\ UNCHANGED <<wdata, terminated>>
          ELSE UNCHANGED <<wwho, wdata, wpc, next_packet, terminated>>
  /\ UNCHANGED <<idVars, callerVars, queueVars, handlerVars, replyVars,
                 ownerVars, peerVars, readVars, readerVars, serVars>>

(***************************************************************************)
(* Impl::IncomingMessageQueueHandler, the reader thread                    *)
(***************************************************************************)

\* What CanRead() may do: throw (the descriptor is gone, or poll reports
\* POLLERR, which a reset by the peer produces), or report POLLIN, which is
\* set when bytes or an end-of-file are waiting.
CanReadOutcomes ==
  IF sock_fd < 0 THEN {"throw"}
  ELSE (IF inbuf # <<>> \/ peer_closed THEN {"readable"} ELSE {"not"})
       \cup (IF peer_closed THEN {"throw"} ELSE {})

\* while (!should_cancel) { if (CanRead()) { Read(kHeaderLen) ... } else
\* yield }: up to the first read() of the header.
ReaderLoop ==
  /\ ~terminated /\ rpc = "loop"
  /\ IF should_cancel
     THEN rpc' = "done" /\ UNCHANGED <<readVars, terminated>>
     ELSE \E c \in CanReadOutcomes :
            /\ terminated' = (c = "throw")
            /\ IF c = "readable"
               THEN /\ rpc' = "hdr" /\ rwho' = "reader"
                    /\ rlen' = kHeaderLen /\ bytes_read' = 0 /\ out' = <<>>
               ELSE UNCHANGED <<rpc, readVars>>
  /\ UNCHANGED <<idVars, callerVars, queueVars, handlerVars, replyVars,
                 ownerVars, sockVars, peerVars, writeVars, writerVars, header,
                 events, ei, hi, hend, stale, invocations, parse_handlers,
                 serVars, faults>>

\* total_len - kHeaderLen in unsigned arithmetic; a wrapped result is kept
\* as its negative reading.
BodyLen(hdr) == ntohl(Take(hdr, 4)) - kHeaderLen

\* What the reader's else-branch does to the map while it holds the lock:
\* the branch holds only the comment "add new message to the map".
StoreReply(map, id, packet) == map

\* The rest of the loop body once the body has been read: packet = header +
\* body; an event packet is decoded by FromComposite and the loop over the
\* events starts; any other packet takes incoming_messages_lck and runs the
\* else-branch.
HandlePacket(hdr, body) ==
  IF HeaderIsEvent(hdr)
  THEN LET r == FromComposite(hdr \o body, ConSizes)
       IN  /\ terminated' = ~r.ok
           /\ events' = r.events /\ ei' = 1
           /\ invocations' = <<>>
           /\ parse_handlers' = event_handlers
           /\ rpc' = IF ~r.ok THEN rpc
                     ELSE IF r.events = <<>> THEN "loop" ELSE "inner"
           /\ UNCHANGED replyVars
  ELSE LET id == ntohl(SubSeq(hdr, 5, 8))
       IN  /\ incoming_messages' = StoreReply(incoming_messages, id, hdr \o body)
           /\ replies_read' = replies_read \cup {id}
           /\ rpc' = "loop"
           /\ UNCHANGED <<incoming_messages_lck, events, ei, invocations,
                          parse_handlers, terminated>>

\* One read() of Read(kHeaderLen).  When it returns, the length is decoded
\* and Read(total_len - kHeaderLen) starts; a body of length 0 returns at
\* once.
ReaderHeader ==
  /\ ~terminated /\ rpc = "hdr"
  /\ \E o \in ReadOutcomes :
       /\ ReadEffect(o)
       /\ IF ReadThrows(o)
          THEN /\ terminated' = TRUE
               /\ UNCHANGED <<readVars, rpc, header, replyVars, events, ei,
                              invocations, parse_handlers>>
          ELSE IF ReadReturns(o)
          THEN LET hdr == out \o Take(inbuf, o.n)
               IN  /\ header' = hdr
                   /\ rlen' = BodyLen(hdr) /\ bytes_read' = 0 /\ out' = <<>>
                   /\ IF BodyLen(hdr) = 0
                      THEN rwho' = NoThread /\ HandlePacket(hdr, <<>>)
                      ELSE /\ rpc' = "body"
                           /\ UNCHANGED <<rwho, replyVars, events, ei,
                                          invocations, parse_handlers,
                                          terminated>>
          ELSE /\ out' = out \o Take(inbuf, o.n)
               /\ bytes_read' = bytes_read + o.n
               /\ UNCHANGED <<rwho, rlen, rpc, header, replyVars, events, ei,
                              invocations, parse_handlers, terminated>>
  /\ UNCHANGED <<idVars, callerVars, queueVars, handlerVars, ownerVars,
                 peerVars, writeVars, writerVars, hi, hend, stale, serVars>>

\* One read() of Read(total_len - kHeaderLen).
ReaderBody ==
  /\ ~terminated /\ rpc = "body"
  /\ \E o \in ReadOutcomes :
       /\ ReadEffect(o)
       /\ IF ReadThrows(o)
          THEN /\ terminated' = TRUE
               /\ UNCHANGED <<readVars, rpc, replyVars, events, ei,
                              invocations, parse_handlers>>
          ELSE /\ out' = out \o Take(inbuf, o.n)
               /\ bytes_read' = bytes_read + o.n
               /\ UNCHANGED rlen
               /\ IF ReadReturns(o)
                  THEN /\ rwho' = NoThread
                       /\ HandlePacket(header, out \o Take(inbuf, o.n))
                  ELSE UNCHANGED <<rwho, rpc, replyVars, events, ei,
                                   invocations, parse_handlers, terminated>>
  /\ UNCHANGED <<idVars, callerVars, queueVars, handlerVars, ownerVars,
                 peerVars, writeVars, writerVars, header, hi, hend, stale,
                 serVars>>

\* What evaluating begin() and end() of event_handlers without a lock may
\* do: the vector may not be constructed yet, or a caller may be inside
\* push_back.
RangeOutcomes ==
  IF ~constructed \/ event_handlers_lck \in Callers
  THEN {"range", "crash"} ELSE {"range"}

\* for (auto& handler : event_handlers) for the event at ei: the range is
\* fixed here, once.
ReaderInner ==
  /\ ~terminated /\ rpc = "inner"
  /\ \E r \in RangeOutcomes :
       /\ terminated' = (r = "crash")
       /\ hend' = Len(event_handlers) /\ hi' = 1 /\ stale' = FALSE
       /\ IF r = "crash" THEN UNCHANGED <<rpc, ei>>
          ELSE IF event_handlers # <<>> THEN rpc' = "call" /\ UNCHANGED ei
          ELSE /\ ei' = ei + 1
               /\ rpc' = IF ei + 1 > Len(events) THEN "loop" ELSE "inner"
  /\ UNCHANGED <<idVars, callerVars, queueVars, handlerVars, replyVars,
                 ownerVars, sockVars, peerVars, writeVars, readVars,
                 writerVars, header, events, invocations, parse_handlers,
                 serVars, faults>>

\* event->Dispatch(*handler) for the handler at hi.  After a push_back has
\* reallocated the vector the iterator dangles: the call may crash or may
\* still find the old element.
ReaderCall ==
  /\ ~terminated /\ rpc = "call"
  /\ \E crash \in (IF stale THEN BOOLEAN ELSE {FALSE}) :
       /\ terminated' = crash
       /\ IF crash THEN UNCHANGED <<invocations, hi, ei, rpc>>
          ELSE /\ invocations' = Append(invocations,
                    [ev |-> ei, h |-> hi,
                     act |-> DispatchImpl(events[ei], event_handlers[hi])])
               /\ IF hi < hend
                  THEN hi' = hi + 1 /\ UNCHANGED <<ei, rpc>>
                  ELSE /\ hi' = hi /\ ei' = ei + 1
                       /\ rpc' = IF ei + 1 > Len(events) THEN "loop"
                                 ELSE "inner"
  /\ UNCHANGED <<idVars, callerVars, queueVars, handlerVars, replyVars,
                 ownerVars, sockVars, peerVars, writeVars, readVars,
                 writerVars, header, events, hend, stale, parse_handlers,
                 serVars, faults>>

(***************************************************************************)
(* The threads that use the connection                                     *)
(***************************************************************************)

\* The packet classes the callers of this model construct.
CallerClasses == {"Version", "DisposeObjects"}

\* The class of the packets each caller constructs.
ClassOfCaller == [c \in Callers |-> IF c = "c1" THEN "Version"
                                    ELSE "DisposeObjects"]

\* The fields a caller gives a packet of class cls: DisposeObjects gets one
\* (object ID 1, reference count 7) request.
CallerFields(cls) ==
  IF cls = "DisposeObjects" THEN << << <<LE(1, 8), LE(7, 4)>> >> >> ELSE <<>>

\* The packets a caller can come to hold.
CallerPackets ==
  {[cls |-> cls, id |-> id, fields |-> CallerFields(cls)] :
     cls \in CallerClasses, id \in 0..(MaxPackets - 1)}

\* GetNextId without its lock_guard: the mutex is never waited for.
NextIdUnguarded == TRUE

\* Whether GetNextId's lock_guard on next_id_lck can be taken.
NextIdLockFree == next_id_lck = NoThread

\* GetNextId, first half, entered from a command packet's constructor:
\* lock_guard lk(next_id_lck); res = next_id.
GetNextIdEnter(c) ==
  /\ ~terminated /\ mpc = "active" /\ cpc[c] = "idle"
  /\ next_id + Cardinality({d \in Callers : cpc[d] = "gni"}) < MaxPackets
  /\ NextIdLockFree
  /\ next_id_lck' = c
  /\ cpc' = [cpc EXCEPT ![c] = "gni"]
  /\ cloc' = [cloc EXCEPT ![c] = next_id]
  /\ UNCHANGED <<next_id, issued, held, queueVars, handlerVars, replyVars,
                 ownerVars, sockVars, peerVars, writeVars, readVars,
                 writerVars, readerVars, serVars, faults, terminated>>

\* GetNextId, second half: next_id++; return res.  The constructor stores
\* the ID, and the caller holds a packet of class cls.
GetNextIdLeave(c, cls) ==
  /\ ~terminated /\ cpc[c] = "gni"
  /\ cls \in CallerClasses /\ cls = ClassOfCaller[c]
  /\ next_id' = next_id + 1
  /\ next_id_lck' = NoThread
  /\ issued' = Append(issued, cloc[c])
  /\ held' = [held EXCEPT ![c] = @ \cup {[cls |-> cls, id |-> cloc[c],
                                           fields |-> CallerFields(cls)]}]
  /\ cpc' = [cpc EXCEPT ![c] = "idle"]
  /\ cloc' = [cloc EXCEPT ![c] = 0]
  /\ UNCHANGED <<queueVars, handlerVars, replyVars, ownerVars, sockVars,
                 peerVars, writeVars, readVars, writerVars, readerVars,
                 serVars, faults, terminated>>

\* SendMessageImpl, first half: lock_guard lk(outgoing_messages_lck).
SendMessageEnter(c, p) ==
  /\ ~terminated /\ mpc = "active" /\ cpc[c] = "idle"
  /\ p \in held[c]
  /\ outgoing_messages_lck = NoThread
  /\ outgoing_messages_lck' = c
  /\ cpc' = [cpc EXCEPT ![c] = "send"]
  /\ cloc' = [cloc EXCEPT ![c] = p]
  /\ held' = [held EXCEPT ![c] = @ \ {p}]
  /\ UNCHANGED <<idVars, outgoing_messages, sentLog, handlerVars, replyVars,
                 ownerVars, sockVars, peerVars, writeVars, readVars,
                 writerVars, readerVars, serVars, faults, terminated>>

\* SendMessageImpl, second half: outgoing_messages.push(move(message)).
SendMessageLeave(c) ==
  /\ ~terminated /\ cpc[c] = "send"
  /\ outgoing_messages' = Append(outgoing_messages, cloc[c])
  /\ sentLog' = Append(sentLog, cloc[c])
  /\ outgoing_messages_lck' = NoThread
  /\ cpc' = [cpc EXCEPT ![c] = "idle"]
  /\ cloc' = [cloc EXCEPT ![c] = 0]
  /\ UNCHANGED <<idVars, held, handlerVars, replyVars, ownerVars, sockVars,
                 peerVars, writeVars, readVars, writerVars, readerVars,
                 serVars, faults, terminated>>

\* RegisterEventHandlerImpl, first half: lock_guard lk(event_handlers_lck).
RegisterEventHandlerEnter(c, h) ==
  /\ ~terminated /\ mpc = "active" /\ cpc[c] = "idle"
  /\ h \in HandlerClasses
  /\ Len(event_handlers) + Cardinality({d \in Callers : cpc[d] = "reg"})
       < MaxHandlers
  /\ event_handlers_lck = NoThread
  /\ event_handlers_lck' = c
  /\ cpc' = [cpc EXCEPT ![c] = "reg"]
  /\ cloc' = [cloc EXCEPT ![c] = h]
  /\ UNCHANGED <<idVars, held, queueVars, event_handlers, replyVars,
                 ownerVars, sockVars, peerVars, writeVars, readVars,
                 writerVars, readerVars, serVars, faults, terminated>>

\* Whether push_back on a vector of n elements reallocates: the capacity
\* doubles from 0, so it does at n = 0, 1, 2, 4, 8.
Reallocates(n) == n \in {0, 1, 2, 4, 8}

\* RegisterEventHandlerImpl, second half: event_handlers.push_back(...).
\* A reallocation invalidates the iterators of a loop the reader is in.
RegisterEventHandlerLeave(c) ==
  /\ ~terminated /\ cpc[c] = "reg"
  /\ event_handlers' = Append(event_handlers, cloc[c])
  /\ stale' = (stale \/ (rpc = "call" /\ Reallocates(Len(event_handlers))))
  /\ event_handlers_lck' = NoThread
  /\ cpc' = [cpc EXCEPT ![c] = "idle"]
  /\ cloc' = [cloc EXCEPT ![c] = 0]
  /\ UNCHANGED <<idVars, held, queueVars, replyVars, ownerVars, sockVars,
                 peerVars, writeVars, readVars, writerVars, rpc, header,
                 events, ei, hi, hend, invocations, parse_handlers, serVars,
                 faults, terminated>>

(***************************************************************************)
(* The specification of the connection                                     *)
(***************************************************************************)

OwnerNext ==
  \/ SocketConnect \/ HandshakeWrite \/ HandshakeRead \/ HandshakeCheck
  \/ StartWriteThread \/ StartReadThread \/ ConstructRest
  \/ Destroy \/ JoinWriteThread \/ JoinReadThread

WriterNext ==
  WriterLoop \/ WriterPop \/ WriterSend

ReaderNext ==
  \/ ReaderLoop \/ ReaderHeader \/ ReaderBody \/ ReaderInner \/ ReaderCall

CallerNext ==
  \E c \in Callers :
    \/ GetNextIdEnter(c)
    \/ \E cls \in CallerClasses : GetNextIdLeave(c, cls)
    \/ \E p \in CallerPackets : SendMessageEnter(c, p)
    \/ SendMessageLeave(c)
    \/ \E h \in HandlerClasses : RegisterEventHandlerEnter(c, h)
    \/ RegisterEventHandlerLeave(c)

PeerNext ==
  \/ \E m \in HandshakeReplies \cup InboundCatalog :
       \E n \in 1..Len(m) : PeerSend(m, n)
  \/ PeerDeliver
  \/ PeerClose

Next == OwnerNext \/ WriterNext \/ ReaderNext \/ CallerNext \/ PeerNext

Spec == Init /\ [][Next]_vars

(***************************************************************************)
(* Serialize as a function: every input of a bounded set, serialised once  *)
(***************************************************************************)

MaxSerId == 1        \* largest packet ID of a serialised packet
MaxVec == 2          \* longest vector field of a serialised packet

\* Sizes tables: the connection's own (all 0), and the mock's of the tests
\* (8 for every kind).
MockSizes == [obj |-> 8, method |-> 8, field |-> 8, frame |-> 8]
SerSizes == {ConSizes, MockSizes}

\* Values of fields, as the bytes the field object holds (host order).
IdValues == {LE(1, 8), LE(258, 8)}
IntValues == {LE(0, 4), LE(258, 4)}
StringValues == {<<>>, <<76, 59>>}
TaggedValues == {[tag |-> 73, alt |-> "Int", v |-> LE(7, 4)],
                 [tag |-> 76, alt |-> "ObjId", v |-> LE(1, 8)],
                 [tag |-> 86, alt |-> "Void", v |-> <<>>]}

\* The sequences over S of length at most MaxVec.
UpTo(S) == UNION {[1..n -> S] : n \in 0..MaxVec}

\* Field assignments of one class.
ExitInputs == {<<i>> : i \in IntValues}
SignatureInputs == {<<str>> : str \in StringValues}
DisposeInputs == {<<v>> : v \in UpTo({<<o, i>> : o \in IdValues, i \in IntValues})}
IdSetValuesInputs ==
  {<<o, v>> : o \in IdValues,
              v \in UpTo({<<f, val>> : f \in IdValues, val \in TaggedValues})}
ArraySetValuesInputs ==
  {<<a, i, v>> : a \in IdValues, i \in IntValues,
                 v \in UpTo({<<val>> : val \in TaggedValues})}
ModifierValues == {[index |-> 0, fields |-> <<LE(2, 4)>>],
                   [index |-> 2, fields |-> <<LE(1, 8)>>],
                   [index |-> 4, fields |-> <<<<76, 59>>>>]}
EventSetInputs == {<<<<8>>, <<2>>, m>> : m \in UpTo(ModifierValues)}

\* The state in which packet p is about to be serialised against sizes.
SerInput(cls, fields) ==
  \E id \in 0..MaxSerId, sizes \in SerSizes :
    ser_in = [p |-> [cls |-> cls, id |-> id, fields |-> fields],
              sizes |-> sizes]

InitSer ==
  /\ ConInit
  /\ ser_out = <<>>
  /\ \/ \E cls \in {"Version", "IDSizes"} : SerInput(cls, <<>>)
     \/ \E f \in ExitInputs : SerInput("Exit", f)
     \/ \E f \in SignatureInputs : SerInput("ClassesBySignature", f)
     \/ \E f \in DisposeInputs : SerInput("DisposeObjects", f)
     \/ \E f \in IdSetValuesInputs :
          \E cls \in {"ClassType.SetValues", "ObjectReference.SetValues"} :
            SerInput(cls, f)
     \/ \E f \in ArraySetValuesInputs : SerInput("ArrayReference.SetValues", f)
     \/ \E f \in EventSetInputs : SerInput("EventRequest.Set", f)

\* packet.Serialize(con): the result is kept as the one element of ser_out.
SerializeCall ==
  /\ ser_out = <<>>
  /\ ser_out' = <<Serialize(ser_in.p, ser_in.sizes)>>
  /\ UNCHANGED <<idVars, callerVars, queueVars, handlerVars, replyVars,
                 ownerVars, sockVars, peerVars, writeVars, readVars,
                 writerVars, readerVars, ser_in, sock_log, faults,
                 terminated>>

NextSer == SerializeCall

SpecSer == InitSer /\ [][NextSer]_vars

(***************************************************************************)
(* A field serialised and decoded again, as the tests of jdwp_type_test.cpp *)
(* do: a field of some kind holding v is serialised against a sizes table, *)
(* and the bytes are decoded by a second field object of the same kind.    *)
(***************************************************************************)

\* The widths the sizes tables of these runs give to every ID kind.
CodecWidths == {0, 4, 8}
CodecSizes == {[obj |-> w, method |-> w, field |-> w, frame |-> w] :
                 w \in CodecWidths}

\* 1, 258 and 2^32 + 1 as uint64_t.
CodecIds == IdValues \cup {<<1, 0, 0, 0, 1, 0, 0, 0>>}

\* What the eight bytes of a field object's value may hold before a decode
\* writes to it (a default-constructed field does not initialise them).
Fills == {ZeroId, [k \in 1..8 |-> 255]}

\* Array regions: built by the constructor, or as a decode leaves them.
ArrayRegions ==
  LET IntValue(n) == [tag |-> 73, alt |-> "Int", v |-> LE(n, 4)]
      ObjValue(n) == [tag |-> 76, alt |-> "ObjId", v |-> LE(n, 8)]
  IN  {ArrayRegionCtor(73, <<>>), ArrayRegionCtor(73, <<IntValue(7)>>),
       ArrayRegionCtor(76, <<ObjValue(258)>>),
       [tag |-> 73, values |-> <<IntValue(7), IntValue(258)>>],
       [tag |-> 76, values |-> <<ObjValue(258)>>]}

\* The values of each kind that are serialised.
CodecValues(kind) ==
  CASE kind \in {"Int", "Float"} -> IntValues
    [] kind = "Byte" -> {<<7>>, <<0>>}
    [] kind = "Short" -> {LE(258, 2)}
    [] kind = "Long" -> CodecIds
    [] kind \in VarKinds -> CodecIds
    [] kind = "String" -> StringValues
    [] kind = "Location" ->
         {[type |-> 1, class_id |-> c, method_id |-> LE(258, 8),
           index |-> LE(5, 8)] : c \in CodecIds}
    [] kind = "TaggedObjectId" ->
         {[tag |-> 76, obj_id |-> o] : o \in CodecIds}
    [] kind = "Value" ->
         {ValueCtor(t, val) : t \in {73, 74, 76, 86}, val \in TaggedValues}
    [] kind = "ArrayRegion" -> ArrayRegions

CodecKinds == {"Int", "Float", "Byte", "Short", "Long", "ObjId", "ThreadId",
               "ReferenceTypeId", "MethodId", "FieldId", "FrameId", "String",
               "Location", "TaggedObjectId", "Value", "ArrayRegion"}

\* The field object that decodes, before the decode: its value bytes hold
\* fill.
PrevOf(kind, fill) ==
  CASE kind = "Location" ->
         [type |-> 0, class_id |-> fill, method_id |-> fill, index |-> fill]
    [] kind = "TaggedObjectId" -> [tag |-> 0, obj_id |-> fill]
    [] OTHER -> fill

InitCodec ==
  /\ ConInit
  /\ ser_out = <<>>
  /\ \E kind \in CodecKinds, sizes \in CodecSizes, fill \in Fills,
        junk \in {0, 255} :
       \E v \in CodecValues(kind) :
         ser_in = [kind |-> kind, v |-> v, sizes |-> sizes, fill |-> fill,
                   junk |-> junk]

\* field.Serialize(con).
FieldSerializeCall ==
  /\ ser_out = <<>>
  /\ ser_out' = <<CodecSerialize(ser_in.kind, ser_in.v, ser_in.sizes)>>
  /\ UNCHANGED <<idVars, callerVars, queueVars, handlerVars, replyVars,
                 ownerVars, sockVars, peerVars, writeVars, readVars,
                 writerVars, readerVars, ser_in, sock_log, faults,
                 terminated>>

\* other.FromEncoded(encoded, con) on the bytes Serialize returned.
FieldFromEncodedCall ==
  /\ Len(ser_out) = 1
  /\ ser_out[1] # Thrown
  /\ ser_out' = Append(ser_out,
                       FieldFromEncoded(ser_in.kind,
                                        PrevOf(ser_in.kind, ser_in.fill),
                                        ser_out[1], ser_in.sizes,
                                        ser_in.junk))
  /\ UNCHANGED <<idVars, callerVars, queueVars, handlerVars, replyVars,
                 ownerVars, sockVars, peerVars, writeVars, readVars,
                 writerVars, readerVars, ser_in, sock_log, faults,
                 terminated>>

NextCodec == FieldSerializeCall \/ FieldFromEncodedCall

SpecCodec == InitCodec /\ [][NextCodec]_vars

(***************************************************************************)
(* Bytes received from a VM and decoded: a Composite event packet through  *)
(* IJdwpEvent::FromComposite, a slice through a field's FromEncoded.        *)
(***************************************************************************)

MaxEvents == 2       \* most event records of a decoded composite

\* The event kinds the records carry: the kinds of JdwpEventKind that a VM
\* sends, and two values that are no event kind.
RecordKinds == {1, 2, 3, 4, 6, 7, 8, 9, 20, 21, 40, 41, 42, 43, 44, 45, 46,
                90, 99, 0, 5}

\* A well-formed encoding of a field of this kind: zero IDs, an empty
\* string, the int value 7.
WireField(kind, sizes) ==
  LET zeros(n) == [k \in 1..n |-> 0]
  IN  CASE kind \in FixedKinds -> zeros(value_size(kind))
        [] kind \in VarKinds -> zeros(GetSize(kind, sizes))
        [] kind = "String" -> zeros(4)
        [] kind = "Location" -> <<1>> \o zeros(sizes.obj + sizes.method + 8)
        [] kind = "TaggedObjectId" -> <<76>> \o zeros(sizes.obj)
        [] kind = "Value" -> <<73, 0, 0, 0, 7>>

\* The record a VM sends for an event of this kind: the kind byte and the
\* fields of the event; a FramePop carries what a Breakpoint carries, and
\* the values that are no event kind are followed by a request ID.
RECURSIVE WireRecords(_, _)
WireRecords(kinds, sizes) ==
  IF kinds = <<>> THEN <<>>
  ELSE LET k == Head(kinds)
           fs == IF k = 3 THEN EventFields(2)
                 ELSE IF k \in SwitchKinds THEN EventFields(k) ELSE <<"Int">>
           RECURSIVE From(_)
           From(i) == IF i > Len(fs) THEN <<>>
                      ELSE WireField(fs[i], sizes) \o From(i + 1)
       IN  <<k>> \o From(1) \o WireRecords(Tail(kinds), sizes)

\* The Composite packet with these records.
WireComposite(kinds, sizes) ==
  LET body == <<0>> \o htonl(Len(kinds)) \o WireRecords(kinds, sizes)
  IN  htonl(kHeaderLen + Len(body)) \o htonl(0) \o <<kNone, kEvent, kComposite>>
      \o body

\* What is decoded: the class that decodes, the bytes, and for a composite
\* the kinds of its records and the handler its events are dispatched to
\* (one with no override, one per way of overriding Handle(VmDeath&),
\* Handle(SingleStep&) and the generic Handle).  The string slices declare
\* lengths of 0, 2 and 3 and hold up to two bytes of data.
InitDecode ==
  /\ ConInit
  /\ ser_out = <<>>
  /\ \E sizes \in SerSizes, junk \in {0, 255} :
       \/ \E n \in 1..MaxEvents : \E kinds \in [1..n -> RecordKinds] :
            \E hk \in SUBSET {1, 99}, g \in BOOLEAN :
              ser_in = [kind |-> "Composite",
                        enc |-> WireComposite(kinds, sizes), kinds |-> kinds,
                        handler |-> [kinds |-> hk, generic |-> g],
                        sizes |-> sizes, junk |-> junk]
       \/ \E len \in {0, 2, 3}, data \in {<<>>, <<76>>, <<76, 59>>} :
            ser_in = [kind |-> "String", enc |-> htonl(len) \o data,
                      kinds |-> <<>>,
                      handler |-> [kinds |-> {}, generic |-> FALSE],
                      sizes |-> sizes, junk |-> junk]

\* IJdwpEvent::FromComposite(encoded, con), or field.FromEncoded(encoded,
\* con) on a default-constructed field.
FromEncodedCall ==
  /\ ser_out = <<>>
  /\ ser_out' =
       <<IF ser_in.kind = "Composite"
         THEN FromComposite(ser_in.enc, ser_in.sizes)
         ELSE FieldFromEncoded(ser_in.kind, ZeroId, ser_in.enc, ser_in.sizes,
                               ser_in.junk)>>
  /\ UNCHANGED <<idVars, callerVars, queueVars, handlerVars, replyVars,
                 ownerVars, sockVars, peerVars, writeVars, readVars,
                 writerVars, readerVars, ser_in, sock_log, faults,
                 terminated>>

\* for (auto& event : events) event->Dispatch(handler), on the events
\* FromComposite returned: what runs for each event.
DispatchCall ==
  /\ Len(ser_out) = 1 /\ ser_in.kind = "Composite" /\ ser_out[1].ok
  /\ ser_out' = Append(ser_out,
                       [i \in DOMAIN ser_out[1].events |->
                          DispatchImpl(ser_out[1].events[i], ser_in.handler)])
  /\ UNCHANGED <<idVars, callerVars, queueVars, handlerVars, replyVars,
                 ownerVars, sockVars, peerVars, writeVars, readVars,
                 writerVars, readerVars, ser_in, sock_log, faults,
                 terminated>>

SpecDecode == InitDecode /\ [][FromEncodedCall \/ DispatchCall]_vars

(***************************************************************************)
(* A JdwpSocket used directly by two threads that catch what its methods   *)
(* throw.  The socket is constructed as in Spec (connect and handshake);   *)
(* then each thread calls Write, Read and CanRead.                         *)
(***************************************************************************)

MaxCalls == 3        \* calls made on the socket after its construction

SocketOps == {"Write", "Read", "CanRead"}

\* The entry of how a call ended: e is the exception thrown ("none" when
\* the call returned), closed whether sock_fd was -1 when it was made.
Ended(c, op, e, closed) ==
  Append(sock_log, [who |-> c, op |-> op, e |-> e, closed |-> closed])

\* Thread c calls Write, Read or CanRead: the test of sock_fd that opens
\* each of them, and for CanRead the poll.
JdwpSocketCall(c, op) ==
  /\ ~terminated /\ mpc = "start_w" /\ cpc[c] = "idle"
  /\ Len(sock_log) + Cardinality({d \in Callers : cpc[d] # "idle"}) < MaxCalls
  /\ IF sock_fd < 0
     THEN sock_log' = Ended(c, op, "logic_error", TRUE) /\ UNCHANGED cpc
     ELSE IF op = "CanRead"
     THEN /\ \E r \in CanReadOutcomes :
               sock_log' = Ended(c, op, IF r = "throw" THEN "system_error"
                                        ELSE "none", FALSE)
          /\ UNCHANGED cpc
     ELSE /\ cpc' = [cpc EXCEPT ![c] = IF op = "Write" THEN "wlock"
                                       ELSE "rlock"]
          /\ UNCHANGED sock_log
  /\ UNCHANGED <<idVars, cloc, held, queueVars, handlerVars, replyVars,
                 ownerVars, sockVars, peerVars, writeVars, readVars,
                 writerVars, readerVars, ser_in, ser_out, faults, terminated>>

\* Write: lock_guard lck(write_lock), for a call Write("\1\2\3").
JdwpSocketWriteLock(c) ==
  /\ ~terminated /\ cpc[c] = "wlock" /\ wwho = NoThread
  /\ wwho' = c /\ wdata' = Tagged(<<1, 2, 3>>, 0, 1) /\ bytes_written' = 0
  /\ cpc' = [cpc EXCEPT ![c] = "write"]
  /\ UNCHANGED <<idVars, cloc, held, queueVars, handlerVars, replyVars,
                 ownerVars, sockVars, peerVars, readVars, writerVars,
                 readerVars, serVars, faults, terminated>>

\* One send() of that Write.  On a descriptor another thread has closed,
\* send() fails with EBADF and Write throws std::system_error.
JdwpSocketSend(c) ==
  /\ ~terminated /\ cpc[c] = "write"
  /\ IF ~fd_open
     THEN /\ sock_log' = Ended(c, "Write", "system_error", FALSE)
          /\ wwho' = NoThread /\ cpc' = [cpc EXCEPT ![c] = "idle"]
          /\ UNCHANGED <<sockVars, wdata, bytes_written, faults>>
     ELSE \E o \in SendOutcomes :
            /\ SendEffect(o)
            /\ IF SendThrows(o) \/ SendReturns(o)
               THEN /\ sock_log' =
                         Ended(c, "Write",
                               IF o.k = "EPIPE" THEN "JdwpException"
                               ELSE IF SendThrows(o) THEN "system_error"
                               ELSE "none", FALSE)
                    /\ wwho' = NoThread /\ cpc' = [cpc EXCEPT ![c] = "idle"]
               ELSE UNCHANGED <<sock_log, wwho, cpc>>
            /\ UNCHANGED wdata
  /\ UNCHANGED <<idVars, cloc, held, queueVars, handlerVars, replyVars,
                 ownerVars, peerVars, readVars, writerVars, readerVars,
                 ser_in, ser_out, terminated>>

\* Read: lock_guard lck(read_lock), for a call Read(2).
JdwpSocketReadLock(c) ==
  /\ ~terminated /\ cpc[c] = "rlock" /\ rwho = NoThread
  /\ rwho' = c /\ rlen' = 2 /\ bytes_read' = 0 /\ out' = <<>>
  /\ cpc' = [cpc EXCEPT ![c] = "read"]
  /\ UNCHANGED <<idVars, cloc, held, queueVars, handlerVars, replyVars,
                 ownerVars, sockVars, peerVars, writeVars, writerVars,
                 readerVars, serVars, faults, terminated>>

\* One read() of that Read; it blocks while nothing has arrived.
JdwpSocketRead(c) ==
  /\ ~terminated /\ cpc[c] = "read"
  /\ IF ~fd_open
     THEN /\ sock_log' = Ended(c, "Read", "system_error", FALSE)
          /\ rwho' = NoThread /\ cpc' = [cpc EXCEPT ![c] = "idle"]
          /\ UNCHANGED <<sockVars, bytes_read, out, faults>>
     ELSE \E o \in ReadOutcomes :
            /\ ReadEffect(o)
            /\ IF ReadThrows(o)
               THEN /\ sock_log' =
                         Ended(c, "Read",
                               IF o.k = "EOF" THEN "JdwpException"
                               ELSE IF o.k = "EINTR" THEN "length_error"
                               ELSE "system_error", FALSE)
                    /\ rwho' = NoThread /\ cpc' = [cpc EXCEPT ![c] = "idle"]
                    /\ UNCHANGED <<bytes_read, out>>
               ELSE /\ out' = out \o Take(inbuf, o.n)
                    /\ bytes_read' = bytes_read + o.n
                    /\ IF ReadReturns(o)
                       THEN /\ sock_log' = Ended(c, "Read", "none", FALSE)
                            /\ rwho' = NoThread
                            /\ cpc' = [cpc EXCEPT ![c] = "idle"]
                       ELSE UNCHANGED <<sock_log, rwho, cpc>>
  /\ UNCHANGED <<idVars, cloc, held, queueVars, handlerVars, replyVars,
                 ownerVars, peerVars, writeVars, rlen, writerVars, readerVars,
                 ser_in, ser_out, terminated>>

NextSock ==
  \/ SocketConnect \/ HandshakeWrite \/ HandshakeRead \/ HandshakeCheck
  \/ PeerNext
  \/ \E c \in Callers :
       \/ \E op \in SocketOps : JdwpSocketCall(c, op)
       \/ JdwpSocketWriteLock(c) \/ JdwpSocketSend(c)
       \/ JdwpSocketReadLock(c) \/ JdwpSocketRead(c)

SpecSock == Init /\ [][NextSock]_vars

(***************************************************************************)
(* Properties                                                              *)
(***************************************************************************)

IsPrefix(a, b) == Len(a) <= Len(b) /\ a = SubSeq(b, 1, Len(a))

\* The bytes written after the handshake, tagged with packet and offset.
IsPacketByte(r) == r.src # -1
PacketWire == SelectSeq(wire, IsPacketByte)

\* The handshake bytes written.
IsHandshakeByte(r) == r.src = -1
RECURSIVE Bytes(_)
Bytes(recs) == IF recs = <<>> THEN <<>> ELSE <<Head(recs).b>> \o Bytes(Tail(recs))
HandshakeWire == Bytes(SelectSeq(wire, IsHandshakeByte))

\* The serialisations of the packets of log, one after the other.
RECURSIVE Stream(_)
Stream(log) ==
  IF log = <<>> THEN <<>>
  ELSE Tagged(Serialize(Head(log), ConSizes), Head(log).id, 1)
       \o Stream(Tail(log))

\* C1: the writer writes the packets in the order SendMessage enqueued them,
\* every byte of one packet before the first byte of the next: what has been
\* written after the handshake is always a prefix of the enqueued packets'
\* serialisations laid end to end in enqueue order.
C1_FifoWholePackets == IsPrefix(PacketWire, Stream(sentLog))

\* C2: if packet A is enqueued before packet B then A.id < B.id, whatever
\* the order in which the packets were constructed.
C2_EnqueueOrderIsIdOrder ==
  \A i, j \in DOMAIN sentLog : i < j => sentLog[i].id < sentLog[j].id

\* C3: the IDs GetNextId hands out to concurrently constructing threads are
\* pairwise distinct: the first is 0 and each later one is the previous
\* plus 1.
C3_DistinctIds == \A i \in DOMAIN issued : issued[i] = i - 1

\* C3's case: both threads have constructed a packet, the second entering
\* GetNextId while the first was between its two halves or after it.
C3_Witness ==
  /\ Len(issued) = MaxPackets
  /\ \A c \in Callers : held[c] # {}

\* The invocations N events and H handlers call for: event by event, and
\* for each event handler by handler.
Pairs(N, H) ==
  IF N * H = 0 THEN <<>>
  ELSE [k \in 1..(N * H) |-> [ev |-> ((k - 1) \div H) + 1,
                              h |-> ((k - 1) % H) + 1]]

\* The invocations the reader has made for the composite it read last.
Called ==
  IF invocations = <<>> THEN <<>>
  ELSE [k \in DOMAIN invocations |-> [ev |-> invocations[k].ev,
                                      h |-> invocations[k].h]]

\* C4: for a composite of N events and the H handlers registered before it
\* was parsed, the reader makes exactly the N x H invocations, events in
\* composite order and handlers in registration order for each event.
C4_CompositeDispatch ==
  LET want == Pairs(Len(events), Len(parse_handlers))
  IN  /\ IsPrefix(Called, want)
      /\ (events # <<>> /\ rpc \notin {"inner", "call"}) => Called = want

\* C5: the sender of a packet gets the reply that carries the packet's ID:
\* once the reader has read the reply to a packet SendMessage accepted, the
\* reply with that ID is there for the sender to take.
C5_ReplyReachesSender ==
  \A i \in DOMAIN sentLog :
    LET id == sentLog[i].id
    IN  id \in replies_read =>
          /\ id \in DOMAIN incoming_messages
          /\ ntohl(SubSeq(incoming_messages[id], 5, 8)) = id

\* C6: every reply the reader has read is stored in incoming_messages under
\* its ID, whether or not anybody waits for it.
C6_RepliesRetained == \A id \in replies_read : id \in DOMAIN incoming_messages

\* C7: once destruction has set should_cancel, the workers stop and the
\* joins complete whatever the workers were doing: as long as the
\* destructor has not returned, the process has a step of its own to take
\* and does not depend on the peer sending anything.
C7_CloseReturns ==
  (should_cancel /\ ~terminated /\ mpc # "destroyed")
    => ENABLED (OwnerNext \/ WriterNext \/ ReaderNext)

\* Whether the sizes table has been populated: the connection reports a
\* width for every kind of ID.
SizesPopulated ==
  ConSizes.obj > 0 /\ ConSizes.method > 0 /\ ConSizes.field > 0
  /\ ConSizes.frame > 0

\* C8: the first packet written after the handshake is VirtualMachine
\* IDSizes (command set 1, command 7), and no byte of a packet passed to
\* SendMessage is written before the sizes table is populated.
C8_IdSizesFirst ==
  /\ Len(PacketWire) >= kHeaderLen =>
       PacketWire[10].b = CommandSetOf("IDSizes")
       /\ PacketWire[11].b = CommandOf("IDSizes")
  /\ \A i \in DOMAIN PacketWire :
       (\E k \in DOMAIN sentLog : sentLog[k].id = PacketWire[i].src)
         => SizesPopulated

\* C9: connecting sends exactly the 14 bytes of the handshake first; it
\* succeeds only if the 14 bytes read back equal the handshake; after any
\* other 14-byte reply the socket is closed, the construction has failed, no
\* worker thread was started and no packet byte was written.
C9_Handshake ==
  /\ mpc \notin {"new", "hs_write", "failed"} => HandshakeWire = kJdwpHandshake
  /\ mpc = "start_w" => out = kJdwpHandshake
  /\ (mpc = "hs_check" /\ out # kJdwpHandshake) => ENABLED HandshakeCheck
  /\ (mpc = "failed" /\ Len(out) = Len(kJdwpHandshake) /\ out # kJdwpHandshake)
       => ~fd_open /\ wpc = "off" /\ rpc = "off" /\ PacketWire = <<>>

\* C10: for every command class and every field assignment, Serialize
\* returns an 11-byte header followed by the body: the big-endian length
\* field equals the length of what is returned, the ID field equals the
\* packet's ID, the flags byte is 0, and bytes 10 and 11 are the class's
\* command set and command.
C10_HeaderedSerialize ==
  ser_out # <<>> =>
    LET res == ser_out[1]
        p == ser_in.p
    IN  /\ res # Thrown
        /\ Len(res) >= kHeaderLen
        /\ ntohl(SubSeq(res, 1, 4)) = Len(res)
        /\ ntohl(SubSeq(res, 5, 8)) = p.id
        /\ res[9] = kNone
        /\ res[10] = CommandSetOf(p.cls)
        /\ res[11] = CommandOf(p.cls)

\* The 64-bit value id is below 2^(8w).
FitsId(id, w) == \A k \in 1..8 : k > w => id[k] = 0

\* v is representable by its kind under the sizes table.
Representable(kind, v, sizes) ==
  CASE kind \in ObjSizedKinds -> FitsId(v, sizes.obj)
    [] kind \in VarKinds \ ObjSizedKinds -> FitsId(v, GetSize(kind, sizes))
    [] kind = "Location" ->
         FitsId(v.class_id, sizes.obj) /\ FitsId(v.method_id, sizes.method)
    [] kind = "TaggedObjectId" -> FitsId(v.obj_id, sizes.obj)
    [] kind = "Value" -> v.alt = "ObjId" => FitsId(v.v, sizes.obj)
    [] kind = "ArrayRegion" ->
         \A k \in 1..Len(v.values) :
           v.values[k].alt = "ObjId" => FitsId(v.values[k].v, sizes.obj)
    [] OTHER -> TRUE

\* The case of a round trip: a representable value and widths in 1..8.
RoundTripCase ==
  /\ ser_in.sizes.obj \in 1..8
  /\ Representable(ser_in.kind, ser_in.v, ser_in.sizes)

\* C11: for every field kind, every representable value and every sizes
\* table with widths in 1..8, Serialize returns bytes, and FromEncoded of
\* those bytes reproduces the value and reports their length.
C11_RoundTrip ==
  RoundTripCase =>
    /\ Len(ser_out) >= 1 => ser_out[1] # Thrown
    /\ Len(ser_out) = 2 =>
         /\ ser_out[2].ok
         /\ ser_out[2].v = ser_in.v
         /\ ser_out[2].n = Len(ser_out[1])

\* The four bytes of n, most significant first.
BE32(n) == <<(n \div 16777216) % 256, (n \div 65536) % 256,
             (n \div 256) % 256, n % 256>>

\* The encodings of the fields of modifier m, one after the other.
ModifierBytes(m, sizes) ==
  LET kinds == ModifierFields(m.index)
      enc(k) == FieldSerialize(kinds[k], m.fields[k], sizes)
      RECURSIVE From(_)
      From(k) == IF k > Len(kinds) THEN <<>> ELSE enc(k) \o From(k + 1)
  IN  From(1)

\* The offset in the packet at which modifier k of mods starts.
RECURSIVE ModifierOffset(_, _, _)
ModifierOffset(mods, k, sizes) ==
  IF k = 1 THEN 17
  ELSE ModifierOffset(mods, k - 1, sizes) + 1
         + Len(ModifierBytes(mods[k - 1], sizes))

\* A serialised EventRequest.Set.
EventRequestSetDone ==
  /\ ser_in.p.cls = "EventRequest.Set"
  /\ Len(ser_out) = 1

GenericUntagged(p, sizes) ==
  LET slots == FieldsOf(p.cls)
      n == Len(slots)
  IN  WithHeader(p.cls, p.id,
        Cat(Cat(SlotsSerialize(SubSeq(slots, 1, n - 1),
                               SubSeq(p.fields, 1, n - 1), sizes),
                BE32(Len(p.fields[n]))),
            UntaggedBundles(slots[n].kinds, p.fields[n], sizes)))

\* C13: a serialised ClassType.SetValues, ObjectReference.SetValues or
\* ArrayReference.SetValues is the generic serialiser's output (slot order,
\* the vector preceded by its 4-byte count) with each value untagged.
C13_SetValuesAsGeneric ==
  (ser_in.p.cls \in SetValuesClasses /\ Len(ser_out) = 1) =>
    ser_out[1] = GenericUntagged(ser_in.p, ser_in.sizes)

\* A variable-width ID field handled at a width of 1..8.
VarIdCase ==
  /\ ser_in.kind \in VarKinds
  /\ GetSize(ser_in.kind, ser_in.sizes) \in 1..8

\* C14: at width N in 1..8, encoding a variable-width ID writes the low N
\* bytes of the value, most significant first; decoding reads N bytes and
\* yields their zero-extension to 64 bits, whatever the field object held
\* before.
C14_VarIdWidth ==
  VarIdCase =>
    LET N == GetSize(ser_in.kind, ser_in.sizes)
    IN  /\ Len(ser_out) >= 1 =>
             ser_out[1] = [k \in 1..N |-> ser_in.v[N + 1 - k]]
        /\ Len(ser_out) = 2 =>
             /\ ser_out[2].ok
             /\ ser_out[2].n = N
             /\ ser_out[2].v = [k \in 1..8 |-> IF k <= N
                                                THEN ser_out[1][N + 1 - k]
                                                ELSE 0]

\* C15: serialising a variable-width ID whose value is 2^(8 * width) or
\* more fails and produces no bytes.
C15_IdTooWide ==
  (VarIdCase /\ Len(ser_out) >= 1
     /\ ~FitsId(ser_in.v, GetSize(ser_in.kind, ser_in.sizes))) =>
    ser_out[1] = Thrown

\* The sizes table of a connection that has not populated it.
SizesUnknown(sizes) == sizes = ConSizes

\* C16: with an unpopulated sizes table, serialising a variable-width ID
\* field or a composite containing one fails, and its bytes are never
\* decoded with a width of 0.
C16_SizesUnknown ==
  (/\ SizesUnknown(ser_in.sizes)
   /\ \/ ser_in.kind \in VarKinds \cup {"Location", "TaggedObjectId"}
      \/ ser_in.kind = "Value" /\ ser_in.v.alt = "ObjId"
   /\ Len(ser_out) >= 1) =>
    /\ ser_out[1] = Thrown
    /\ Len(ser_out) = 1

\* The reader has read a whole header.
HeaderRead == Len(header) = kHeaderLen

\* C17: after a header whose total length is below 11 the reader does not
\* go on to read a body; whenever it reads a body, the length it asks for
\* is total_len - 11 and is not negative.
C17_ShortLengthMalformed ==
  (HeaderRead /\ rpc = "body") =>
    /\ ntohl(Take(header, 4)) >= kHeaderLen
    /\ rlen = ntohl(Take(header, 4)) - kHeaderLen
    /\ rlen >= 0

\* The reader has read a whole event packet that FromComposite does not
\* parse.
ParseFailed ==
  /\ HeaderRead /\ HeaderIsEvent(header)
  /\ rpc = "body" /\ rlen > 0 /\ Len(out) = rlen
  /\ ~FromComposite(header \o out, ConSizes).ok

\* C18: when the reader fails to parse an inbound packet the process goes
\* on and the connection is closed in an orderly way: the socket is closed
\* and cancellation is requested of both workers.
C18_ParseFailureCloses ==
  ParseFailed => ~terminated /\ ~fd_open /\ should_cancel

\* Whether a packet of class cls has a field whose encoding depends on the
\* sizes table.
HasVarId(cls) ==
  \E i \in DOMAIN FieldsOf(cls) :
    \E k \in DOMAIN FieldsOf(cls)[i].kinds :
      FieldsOf(cls)[i].kinds[k]
        \in VarKinds \cup {"Location", "TaggedObjectId", "Value"}

\* C19: serialising a packet with a variable-width ID before the sizes are
\* known fails the call that sent it, so while the sizes table is not
\* populated no byte of such a packet is written to the socket.
C19_UserErrorFailsCall ==
  ~SizesPopulated =>
    \A i \in DOMAIN PacketWire :
      \A k \in DOMAIN sentLog :
        sentLog[k].id = PacketWire[i].src => ~HasVarId(sentLog[k].cls)

\* C20: once the socket has observed a zero-byte read or a broken-pipe
\* write error (Close() has set sock_fd to -1), every call of Read, Write
\* or CanRead made afterwards, on any thread, fails with the exception that
\* reports a closed connection, roastery::JdwpException.
C20_ClosedFailsDisconnected ==
  \A i \in DOMAIN sock_log :
    sock_log[i].closed => sock_log[i].e = "JdwpException"

\* The calls of op logged so far that were made on an open socket.
LoggedCalls(op) ==
  LET Is(r) == r.op = op /\ ~r.closed IN SelectSeq(sock_log, Is)

\* C21: whatever partial transfers and interruptions the operating system
\* returns, a Write that returns has sent every byte of its argument once
\* and in order, and an interruption never makes Write or Read fail: when
\* no Write is in progress and every Write so far returned, the bytes
\* written are the three bytes of each call's argument, call after call,
\* and no Read has failed on an interrupted read().
C21_PartialTransfers ==
  /\ (/\ wwho = NoThread
      /\ \A i \in DOMAIN LoggedCalls("Write") :
           LoggedCalls("Write")[i].e = "none") =>
       /\ Len(PacketWire) = 3 * Len(LoggedCalls("Write"))
       /\ \A i \in DOMAIN PacketWire : PacketWire[i].off = ((i - 1) % 3) + 1
  /\ \A i \in DOMAIN sock_log : sock_log[i].e # "length_error"

\* The event-kind table.
EventKindTable == {1, 2, 3, 4, 6, 7, 8, 9, 20, 21, 40, 41, 42, 43, 44, 45, 46,
                   90, 99}

\* A composite packet has been decoded.
CompositeDecoded == ser_in.kind = "Composite" /\ Len(ser_out) = 1

\* C22: FromComposite decodes one event per record when every record's
\* kind is in the event-kind table, and otherwise fails and returns no
\* events, not even those of the records before the offending one.
C22_EventKinds ==
  CompositeDecoded =>
    IF \A i \in DOMAIN ser_in.kinds : ser_in.kinds[i] \in EventKindTable
    THEN ser_out[1].ok /\ ser_out[1].events = ser_in.kinds
    ELSE ~ser_out[1].ok /\ ser_out[1].events = <<>>

\* A string slice has been decoded; Declared is the length its first four
\* bytes announce.
StringDecoded == ser_in.kind = "String" /\ Len(ser_out) = 1
Declared ==
  ser_in.enc[1] * 16777216 + ser_in.enc[2] * 65536 + ser_in.enc[3] * 256
    + ser_in.enc[4]

\* C23: decoding a string whose declared length exceeds the bytes left in
\* the slice fails; otherwise the decoded string is the declared number of
\* bytes after the length and 4 + length bytes are reported consumed.
C23_StringTruncated ==
  StringDecoded =>
    IF Declared > Len(ser_in.enc) - 4
    THEN ~ser_out[1].ok
    ELSE /\ ser_out[1].ok
         /\ ser_out[1].v = SubSeq(ser_in.enc, 5, 4 + Declared)
         /\ ser_out[1].n = 4 + Declared

\* The payload kind the tag-to-kind table gives a tag.
TagKind(t) ==
  CASE t = 86 -> "Void" [] t = 90 -> "Bool" [] t = 66 -> "Byte"
    [] t = 67 -> "Char" [] t = 83 -> "Short" [] t = 73 -> "Int"
    [] t = 74 -> "Long" [] t = 70 -> "Float" [] t = 68 -> "Double"
    [] t \in {91, 76, 115, 116, 103, 108, 99} -> "ObjId"

\* The payload size of a tag under a sizes table.
TagPayloadSize(t, sizes) ==
  CASE TagKind(t) = "Void" -> 0
    [] TagKind(t) \in {"Bool", "Byte"} -> 1
    [] TagKind(t) \in {"Char", "Short"} -> 2
    [] TagKind(t) \in {"Int", "Float"} -> 4
    [] TagKind(t) \in {"Long", "Double"} -> 8
    [] TagKind(t) = "ObjId" -> sizes.obj

\* C24: a JdwpValue made by its constructor or by a decode holds the
\* payload kind of its tag, and its serialisation is the tag byte followed
\* by as many bytes as the payload of that tag has.
C24_ValueTagConsistent ==
  (ser_in.kind = "Value" /\ Len(ser_out) >= 1) =>
    /\ ser_in.v.alt = TagKind(ser_in.v.tag)
    /\ ser_out[1] # Thrown =>
         /\ ser_out[1][1] = ser_in.v.tag
         /\ Len(ser_out[1]) = 1 + TagPayloadSize(ser_in.v.tag, ser_in.sizes)
    /\ (Len(ser_out) = 2 /\ ser_out[2].ok) =>
         ser_out[2].v.alt = TagKind(ser_out[2].v.tag)

\* The events of a composite have been dispatched to the handler.
Dispatched == ser_in.kind = "Composite" /\ Len(ser_out) = 2

\* C25: dispatching an event of kind K runs exactly one function body: the
\* handler's override for K if it has one, otherwise the generic Handle,
\* which is the empty default when the handler does not override it; an
\* override for another kind never runs.
C25_DispatchByKind ==
  Dispatched =>
    \A i \in DOMAIN ser_out[2] :
      LET K == ser_in.kinds[i]
          h == ser_in.handler
          ran == ser_out[2][i]
      IN  /\ K \in h.kinds => ran = <<"Handle", K>>
          /\ (K \notin h.kinds /\ h.generic) => ran = <<"Handle", 0>>
          /\ (K \notin h.kinds /\ ~h.generic) => ran = <<"ignore", 0>>
          /\ ran[1] = "Handle" => ran[2] \in {K, 0}

\* An event was dispatched to a handler that overrides Handle for another
\* kind only, and one to a handler that overrides Handle for its kind.
C25_Witness ==
  /\ Dispatched
  /\ ser_in.kinds = <<1, 99>>
  /\ ser_in.handler = [kinds |-> {99}, generic |-> TRUE]
  /\ ser_out[2] = << <<"Handle", 0>>, <<"Handle", 99>> >>

\* A step of the reader thread that reads event_handlers: the range-for
\* taking begin() and end(), or the dereference of its iterator for a call.
ReaderReadsList ==
  /\ rpc \in {"inner", "call"}
  /\ <<rpc, ei, invocations>>' # <<rpc, ei, invocations>>

\* C26: the reader thread never reads the handler list while another thread
\* is inside RegisterEventHandler, holding the handler-list mutex and
\* appending to the list.
C26_ListReadExcludesAppend ==
  [][ReaderReadsList => event_handlers_lck \notin Callers]_vars

\* The step in which the writer thread's outgoing_messages.empty() has
\* answered false and the thread goes on to lock the queue.
WriterChecksEmpty == wpc = "loop" /\ wpc' = "lock"

\* C27: the writer thread's emptiness check on the outbound queue never
\* runs while a caller holds the outbound-queue mutex for its push: every
\* access to the queue is made under the mutex.
C27_QueueAccessLocked ==
  [][WriterChecksEmpty => outgoing_messages_lck \notin Callers]_vars

\* The bytes of w that belong to the packet with this ID.
WireOf(w, id) == SelectSeq(w, LAMBDA x : x.src = id)

\* The step in which the writer thread's socket->Write(...) returns to the
\* loop: the packet it popped is destroyed with the iteration.
WriterWriteReturns == wpc = "send" /\ wpc' = "loop"

\* C28: a packet accepted by SendMessage and popped by the writer thread is
\* on the wire, whole and exactly once, when the writer's Write of it
\* returns with the socket open: it is not dropped and no byte of it is
\* written twice.  (After that step the packet is in no queue and no
\* thread holds it, so what is missing then is never written.)
C28_PoppedPacketWrittenOnce ==
  [][(WriterWriteReturns /\ sock_fd' >= 0 /\ ~should_cancel')
       => WireOf(wire', next_packet.id) = wdata]_vars

\* A worker thread has been started and has not finished.
WorkerRunning == wpc \in {"loop", "lock", "send"} \/ rpc \notin {"off", "done"}

\* C29: while a worker thread runs, the outbound queue, the reply map, the
\* handler list and their mutexes are constructed: the threads are started
\* only after these members exist, so no step of a worker can touch one of
\* them before its construction has completed.
C29_MembersBeforeThreads == WorkerRunning => constructed

\* The value vectors an array region is constructed from.
CtorInputs ==
  {<<>>, <<[tag |-> 73, alt |-> "Int", v |-> LE(7, 4)]>>,
   <<[tag |-> 76, alt |-> "ObjId", v |-> LE(258, 8)]>>}

\* C30: a JdwpArrayRegion constructed from (tag, values) holds exactly the
\* n input values, none of them null and in the same order, and its
\* Serialize writes the tag, the count n and the n element encodings.
C30_ArrayRegionCtor ==
  (ser_in.kind = "ArrayRegion" /\ Len(ser_out) >= 1) =>
    \A vals \in CtorInputs :
      ser_in.v = ArrayRegionCtor(ser_in.v.tag, vals) =>
        /\ ser_in.v.values = vals
        /\ ser_out[1] = Cat(<<ser_in.v.tag>> \o htonl(Len(vals)),
                            ElementsSerialize(ser_in.v.tag, vals,
                                              ser_in.sizes))

=============================================================================
